---------------------------- MODULE Spec2Model ----------------------------
(***************************************************************************)
(* Verification model of the multi-transport messaging layer of            *)
(* pymeshzork: the Hybrid Manager's dedup gate (hybrid_transport.py), the   *)
(* transport contract (client.py, mqtt_client.py, serial_client.py), the    *)
(* wire protocol (protocol.py) and the Presence Manager (presence.py).      *)
(*                                                                         *)
(* Every subsystem has its own group of variables and its own              *)
(* specification; a specification leaves the other groups unchanged.       *)
(***************************************************************************)
EXTENDS Integers, Sequences, FiniteSets, TLC

(***************************************************************************)
(* Bounds of the model and scaled configuration values.                    *)
(***************************************************************************)
\* HybridConfig.dedup_cache_size (default 1000), scaled down.
DedupCacheSize == 2
\* HybridConfig.dedup_ttl (default 300 s), in clock ticks.
DedupTTL == 2
\* The clock of the gate stops here.
MaxTime == 4
\* Messages handed to the dedup gate in one behaviour.
MaxMsgs == 4
\* send() calls of the application on one transport (SpecConn).
MaxSends == 2
\* connect() and disconnect() calls on one transport.
MaxOps == 3
\* send() calls on a transport that never reaches Connected (SpecOffline).
MaxOfflineSends == 105

\* The clock of the codec stops here.
MaxClock == 2
\* Sequence numbers given to the message factories.
MaxSeq == 1

\* PresenceManager.heartbeat_timeout (default 180 s), in clock ticks.
HeartbeatTimeout == 2
\* The clock of the Presence Manager stops here.
MaxPTime == 3
\* Messages handled by the Presence Manager in one behaviour.
MaxPresenceMsgs == 3

\* Sequence numbers a remote sender uses, one more than SeenLimit.
MaxInbound == 1001

\* Messages the queue of the lock model holds at most.
MaxLockQueue == 2

\* Outgoing messages followed by the model.
MaxKeyMsgs == 3

\* _handle_incoming: `if len(seen) > 1000: seen.clear()`
SeenLimit == 1000

\* deque(maxlen=100) of MeshtasticClient._outgoing_queue.
QueueMaxLen == 100
\* _flush_queue gives a message up once its attempts reach this.
MaxAttempts == 3

(***************************************************************************)
(* Transport kinds that can own a receive thread.  _create_client returns  *)
(* None for MESHTASTIC_NATIVE, so only these two are ever registered.      *)
(***************************************************************************)
Transports == {"MESHTASTIC_SERIAL", "MQTT"}

\* (player_id, sequence) pairs of the inbound messages of the model.
Keys == {<<"p1", 1>>, <<"p1", 2>>, <<"p2", 1>>}
\* The keys the concurrent receive threads carry.
RaceKeys == {<<"p1", 1>>, <<"p2", 1>>}

NoTime == 0 - 1
NoTransport == "none"

VARIABLES
  \* ---- Hybrid Manager dedup gate ----
  cache,            \* LRUCache._cache: OrderedDict key -> time, oldest first
  now,              \* time.time()
  duplicate_count,  \* HybridTransport._duplicate_count
  delivered,        \* per key: invocations of the application callbacks
  entered,          \* messages that entered _handle_message
  admitted_at,      \* per key: time of the latest admission (history)
  admitted_by,      \* per key: transport of the latest admission (history)
  last_msg,         \* source and key of the latest handled message (history)
  hpc,              \* per receive thread: position inside _handle_message
  hkey,             \* per receive thread: key of the message being handled
  hreg,             \* per receive thread: value read by `_duplicate_count += 1`
  used_at           \* per key: when it was last admitted or found by a
                    \* lookup, counted in cache operations (history, 0: never)

VARIABLES
  \* ---- one transport (MQTTClient over MeshtasticClient) ----
  state,            \* MeshtasticClient._state
  sequence,         \* MeshtasticClient._sequence
  outgoing_queue,   \* MeshtasticClient._outgoing_queue
  wire,             \* messages published by _send_raw, in order (history)
  mqtt_client,      \* MQTTClient._mqtt_client is not None
  mqtt_connected,   \* MQTTClient._mqtt_connected (threading.Event)
  loop,             \* paho network loop of the current client
  link,             \* broker session as the network loop sees it
  cpc,              \* position of the thread inside connect()
  hb_threads,       \* live heartbeat loops
  stop_heartbeat,   \* MeshtasticClient._stop_heartbeat (threading.Event)
  ops               \* connect() and disconnect() calls made so far

gateVars == <<cache, now, duplicate_count, delivered, entered, admitted_at,
              admitted_by, last_msg, hpc, hkey, hreg, used_at>>

connVars == <<state, sequence, outgoing_queue, wire, mqtt_client,
              mqtt_connected, loop, link, cpc, hb_threads, stop_heartbeat, ops>>

VARIABLES
  \* ---- Hybrid Manager: registry, primary, detection loop ----
  transport_priority,  \* HybridConfig.transport_priority
  registered,          \* keys of HybridTransport._transports
  tstate,              \* per kind: state of its client ("none": no client)
  primary,             \* HybridTransport._primary_transport
  status_available,    \* per kind: TransportStatus.available
  status_connected,    \* per kind: TransportStatus.connected
  detection_running,   \* the detection thread exists and is not stopped
  last_send,           \* result of the latest HybridTransport.send (history)
  last_connect,        \* latest HybridTransport.connect: loop trace, result (history)
  last_pass            \* latest pass of _detection_loop: what it found (history)

hybridVars == <<transport_priority, registered, tstate, primary,
                status_available, status_connected, detection_running,
                last_send, last_connect, last_pass>>

VARIABLES
  \* ---- Presence Manager ----
  players,          \* PresenceManager._players: id -> PlayerInfo ("in": present)
  ptime,            \* time.time() as the Presence Manager reads it
  ppc,              \* the message thread: "idle", or between the locked
                    \* section of a handler and its callbacks
  pplayer,          \* the PlayerInfo that thread holds for its callbacks
  created,          \* per id: roster entries created (history)
  join_fired,       \* per id: invocations of the join callbacks
  leave_fired,      \* per id: invocations of the leave callbacks
  handled,          \* messages handled so far
  last_handled,     \* the latest message given to handle_message and the
                    \* callbacks its handling has invoked (history)
  move_args,        \* (from_room, to_room) given to the move callbacks by the
                    \* latest handled message, <<>> if it called none
  observed_at       \* per id in the roster: the time its latest message was
                    \* handled (history); NoTime for an id not in the roster

presVars == <<players, ptime, ppc, pplayer, created, join_fired, leave_fired,
             handled, last_handled, move_args, observed_at>>

VARIABLES
  \* ---- Wire codec ----
  msg,              \* the GameMessage a sender holds
  encoded,          \* encode_message(msg): the JSON text, as its tokens
  decoded,          \* decode_message(encoded) at the receiver
  kpc,              \* "none", "made", "encoded" or "decoded"
  clock             \* time.time() as the codec reads it

codecVars == <<msg, encoded, decoded, kpc, clock>>

VARIABLES
  \* ---- the threads of one transport ----
  tpc,              \* per thread: its position (application thread inside
                    \* send(); heartbeat threads inside _heartbeat_loop)
  tseq,             \* per thread: msg.sequence of the message it is sending
  heartbeat_thread, \* MeshtasticClient._heartbeat_thread
  dpc,              \* position of the application thread inside disconnect()
  assigned,         \* values returned by _next_sequence, in order (history)
  last_ret,         \* the latest return of send(): value and message (history)
  quiet             \* disconnect() has returned and connect() was not
                    \* called since (history)

threadVars == <<tpc, tseq, heartbeat_thread, dpc, assigned, last_ret, quiet>>

VARIABLES
  \* ---- SerialClient ----
  interface         \* SerialClient._interface is not None

serialVars == <<interface>>

VARIABLES
  \* ---- inbound side of one transport ----
  seen_sequences,   \* MeshtasticClient._seen_sequences: sender -> set
  highest,          \* per remote sender: the highest sequence it has sent
  last_in,          \* the latest message given to _handle_incoming and the
                    \* observers it was passed to (history)
  last_error        \* the exception the latest _handle_incoming has met, and
                    \* whether it left the handler (history)

inboundVars == <<seen_sequences, highest, last_in, last_error>>

VARIABLES
  \* ---- HybridTransport.disconnect against the detection thread ----
  stop_detection,   \* HybridTransport._stop_detection is set
  pass_pc,          \* position of the detection thread
  pass_i,           \* position of the pass in the list of available kinds
  pass_avail,       \* the kinds the pass has probed available
  closed            \* disconnect() has returned and connect() was not
                    \* called since (history)

shutVars == <<stop_detection, pass_pc, pass_i, pass_avail, closed>>

VARIABLES
  \* ---- locks, callbacks and raw transmissions, thread by thread ----
  lk_state,         \* holder of MeshtasticClient._state_lock
  lk_queue,         \* holder of MeshtasticClient._queue_lock
  lk_presence,      \* holder of PresenceManager._lock
  lpc,              \* per thread: its position
  lcb,              \* per thread: the observer callbacks it is executing
  in_raw,           \* per thread: it is inside _send_raw
  lstate,           \* MeshtasticClient._state
  larg,             \* per thread: the state it is passing to _set_state
  lqueue,           \* len(MeshtasticClient._outgoing_queue)
  lattempts,        \* attempts of the head of the queue
  lroster,          \* ids in PresenceManager._players
  lstale,           \* stale_ids of the sweep under way
  lplayer           \* the id the message thread is handling

lockVars == <<lk_state, lk_queue, lk_presence, lpc, lcb, in_raw, lstate, larg,
              lqueue, lattempts, lroster, lstale, lplayer>>

VARIABLES
  \* ---- The outgoing messages of the transports of one Hybrid Manager ----
  kseq,             \* per transport: its client's _sequence
  outbox            \* the messages given a sequence so far (history); n
                    \* tells the messages apart

keyVars == <<kseq, outbox>>

vars == <<gateVars, connVars, hybridVars, presVars, codecVars, threadVars,
          serialVars, inboundVars,
          shutVars,
          lockVars,
          keyVars>>

\* A step of one subsystem leaves the variables of the others alone.
GateStep ==
  UNCHANGED <<connVars, hybridVars, presVars, codecVars, threadVars, serialVars,
              inboundVars,
              shutVars,
              lockVars,
              keyVars>>
ConnStep ==
  UNCHANGED <<gateVars, hybridVars, presVars, codecVars, threadVars, serialVars,
              inboundVars,
              shutVars,
              lockVars,
              keyVars>>
HybridStep ==
  UNCHANGED <<gateVars, connVars, presVars, codecVars, threadVars, serialVars,
              inboundVars,
              shutVars,
              lockVars,
              keyVars>>
PresenceStep ==
  UNCHANGED <<gateVars, connVars, hybridVars, codecVars, threadVars, serialVars,
              inboundVars,
              shutVars,
              lockVars,
              keyVars>>
CodecStep ==
  UNCHANGED <<gateVars, connVars, hybridVars, presVars, threadVars, serialVars,
              inboundVars,
              shutVars,
              lockVars,
              keyVars>>
ThreadStep ==
  UNCHANGED <<gateVars, hybridVars, presVars, codecVars, serialVars, inboundVars,
              shutVars,
              lockVars,
              keyVars>>
SerialStep ==
  UNCHANGED <<gateVars, hybridVars, presVars, codecVars, threadVars, inboundVars,
              shutVars,
              lockVars,
              keyVars>>
InboundStep ==
  UNCHANGED <<gateVars, connVars, hybridVars, presVars, codecVars, threadVars,
              serialVars,
              shutVars,
              lockVars,
              keyVars>>
ShutStep ==
  UNCHANGED <<gateVars, connVars, presVars, codecVars, threadVars,
              serialVars, inboundVars,
              lockVars,
              keyVars>>
LockStep ==
  UNCHANGED <<gateVars, connVars, hybridVars, presVars, codecVars,
              threadVars, serialVars, inboundVars, shutVars,
              keyVars>>
KeyStep ==
  UNCHANGED <<gateVars, connVars, presVars, codecVars, threadVars,
              serialVars, inboundVars, shutVars, lockVars>>

(***************************************************************************)
(* LRUCache                                                                *)
(***************************************************************************)
KeyIndex(c, key) == CHOOSE i \in 1..Len(c) : c[i].key = key

KeyIn(c, key) == \E i \in 1..Len(c) : c[i].key = key

RemoveAt(c, i) == SubSeq(c, 1, i - 1) \o SubSeq(c, i + 1, Len(c))

\* A variant that leaves the key where it is (first in, first out).
MoveToEnd_Stay(c, key) == c

\* OrderedDict.move_to_end(key)
MoveToEnd(c, key) ==
  LET i == KeyIndex(c, key) IN Append(RemoveAt(c, i), c[i])

\* time.time() - self._cache[key] > self.ttl
Expired(ts, t) == t - ts > DedupTTL

\* Mutant: the TTL test of __contains__ is inverted.
LRUContainsResult_Inverted(c, key, t) ==
  /\ KeyIn(c, key)
  /\ Expired(c[KeyIndex(c, key)].ts, t)

\* LRUCache.__contains__: the value returned.
LRUContainsResult(c, key, t) ==
  /\ KeyIn(c, key)
  /\ ~Expired(c[KeyIndex(c, key)].ts, t)

\* Mutant: __contains__ forgets to delete the expired entry.
LRUContainsCache_KeepExpired(c, key, t) ==
  IF ~KeyIn(c, key) THEN c
  ELSE IF Expired(c[KeyIndex(c, key)].ts, t) THEN c
  ELSE MoveToEnd(c, key)

\* LRUCache.__contains__: the cache it leaves (an expired entry is deleted,
\* a live one becomes the most recently used).
LRUContainsCache(c, key, t) ==
  IF ~KeyIn(c, key) THEN c
  ELSE IF Expired(c[KeyIndex(c, key)].ts, t) THEN RemoveAt(c, KeyIndex(c, key))
  ELSE MoveToEnd(c, key)

\* while len(self._cache) > self.maxsize: self._cache.popitem(last=False)
EvictOldest(c) ==
  IF Len(c) > DedupCacheSize THEN SubSeq(c, Len(c) - DedupCacheSize + 1, Len(c))
  ELSE c

\* LRUCache.add
LRUAdd(c, key, t) ==
  IF KeyIn(c, key) THEN MoveToEnd(c, key)
  ELSE EvictOldest(Append(c, [key |-> key, ts |-> t]))

\* The key was admitted or found by a lookup: it is the latest one used.
Used(u, key) ==
  [u EXCEPT ![key] = 1 + (CHOOSE n \in {u[k] : k \in Keys} :
                            \A k \in Keys : u[k] <= n)]

\* f"{message.player_id}:{message.sequence}"
MsgId(player_id, seq) == <<player_id, seq>>

InitGate ==
  /\ cache = <<>>
  /\ now = 0
  /\ duplicate_count = 0
  /\ delivered = [k \in Keys |-> 0]
  /\ entered = 0
  /\ admitted_at = [k \in Keys |-> NoTime]
  /\ admitted_by = [k \in Keys |-> NoTransport]
  /\ last_msg = [src |-> NoTransport, key |-> <<"", 0>>]
  /\ hpc = [t \in Transports |-> "idle"]
  /\ hkey = [t \in Transports |-> <<"", 0>>]
  /\ hreg = [t \in Transports |-> 0]
  /\ used_at = [k \in Keys |-> 0]

\* Mutant: the duplicate branch of _handle_message lacks its return, so a
\* duplicate is counted and then admitted and dispatched as well.
HandleMessage_NoReturn(src, key) ==
  /\ GateStep
  /\ entered < MaxMsgs
  /\ entered' = entered + 1
  /\ last_msg' = [src |-> src, key |-> key]
  /\ duplicate_count' =
       IF LRUContainsResult(cache, key, now) THEN duplicate_count + 1
       ELSE duplicate_count
  /\ cache' = LRUAdd(LRUContainsCache(cache, key, now), key, now)
  /\ delivered' = [delivered EXCEPT ![key] = @ + 1]
  /\ admitted_at' = [admitted_at EXCEPT ![key] = now]
  /\ admitted_by' = [admitted_by EXCEPT ![key] = src]
  /\ used_at' = Used(used_at, key)
  /\ UNCHANGED <<now, hpc, hkey, hreg>>

(***************************************************************************)
(* HybridTransport._handle_message run to completion by one receive        *)
(* thread: membership check, then either the duplicate counter or the      *)
(* admission and the dispatch to the application callbacks.                *)
(***************************************************************************)
HandleMessage(src, key) ==
  /\ GateStep
  /\ entered < MaxMsgs
  /\ entered' = entered + 1
  /\ last_msg' = [src |-> src, key |-> key]
  /\ IF LRUContainsResult(cache, key, now)
     THEN /\ cache' = LRUContainsCache(cache, key, now)
          /\ duplicate_count' = duplicate_count + 1
          /\ UNCHANGED <<delivered, admitted_at, admitted_by>>
     ELSE /\ cache' = LRUAdd(LRUContainsCache(cache, key, now), key, now)
          /\ delivered' = [delivered EXCEPT ![key] = @ + 1]
          /\ admitted_at' = [admitted_at EXCEPT ![key] = now]
          /\ admitted_by' = [admitted_by EXCEPT ![key] = src]
          /\ UNCHANGED duplicate_count
  /\ used_at' = Used(used_at, key)
  /\ UNCHANGED <<now, hpc, hkey, hreg>>

\* The wall clock advances.
Tick ==
  /\ GateStep
  /\ now < MaxTime
  /\ now' = now + 1
  /\ UNCHANGED <<cache, duplicate_count, delivered, entered, admitted_at,
                 admitted_by, last_msg, hpc, hkey, hreg, used_at>>

NextGate ==
  \/ \E src \in Transports, key \in Keys : HandleMessage(src, key)
  \/ Tick

(***************************************************************************)
(* The same handler as the steps one receive thread takes, one thread per  *)
(* transport.  LRUCache takes its lock inside __contains__ and inside add, *)
(* so each of the two is one step; nothing is held between them.           *)
(***************************************************************************)
Receive(t, key) ==
  /\ GateStep
  /\ hpc[t] = "idle"
  /\ entered < MaxMsgs
  /\ entered' = entered + 1
  /\ hpc' = [hpc EXCEPT ![t] = "check"]
  /\ hkey' = [hkey EXCEPT ![t] = key]
  /\ last_msg' = [src |-> t, key |-> key]
  /\ UNCHANGED <<cache, now, duplicate_count, delivered, admitted_at,
                 admitted_by, hreg, used_at>>

\* if msg_id in self._seen_messages
CheckSeen(t) ==
  /\ GateStep
  /\ hpc[t] = "check"
  /\ cache' = LRUContainsCache(cache, hkey[t], now)
  /\ hpc' = [hpc EXCEPT ![t] =
              IF LRUContainsResult(cache, hkey[t], now) THEN "dup_load" ELSE "add"]
  /\ used_at' = IF LRUContainsResult(cache, hkey[t], now)
                THEN Used(used_at, hkey[t]) ELSE used_at
  /\ UNCHANGED <<now, duplicate_count, delivered, entered, admitted_at,
                 admitted_by, last_msg, hkey, hreg>>

\* self._duplicate_count += 1: the read ...
DupLoad(t) ==
  /\ GateStep
  /\ hpc[t] = "dup_load"
  /\ hreg' = [hreg EXCEPT ![t] = duplicate_count]
  /\ hpc' = [hpc EXCEPT ![t] = "dup_store"]
  /\ UNCHANGED <<cache, now, duplicate_count, delivered, entered, admitted_at,
                 admitted_by, last_msg, hkey, used_at>>

\* ... and the write; the handler returns.
DupStore(t) ==
  /\ GateStep
  /\ hpc[t] = "dup_store"
  /\ duplicate_count' = hreg[t] + 1
  /\ hpc' = [hpc EXCEPT ![t] = "idle"]
  /\ UNCHANGED <<cache, now, delivered, entered, admitted_at, admitted_by,
                 last_msg, hkey, hreg, used_at>>

\* self._seen_messages.add(msg_id)
MarkSeen(t) ==
  /\ GateStep
  /\ hpc[t] = "add"
  /\ cache' = LRUAdd(cache, hkey[t], now)
  /\ admitted_at' = [admitted_at EXCEPT ![hkey[t]] = now]
  /\ admitted_by' = [admitted_by EXCEPT ![hkey[t]] = t]
  /\ hpc' = [hpc EXCEPT ![t] = "dispatch"]
  /\ used_at' = Used(used_at, hkey[t])
  /\ UNCHANGED <<now, duplicate_count, delivered, entered, last_msg, hkey, hreg>>

\* for callback in self._message_callbacks: callback(message)
Dispatch(t) ==
  /\ GateStep
  /\ hpc[t] = "dispatch"
  /\ delivered' = [delivered EXCEPT ![hkey[t]] = @ + 1]
  /\ hpc' = [hpc EXCEPT ![t] = "idle"]
  /\ UNCHANGED <<cache, now, duplicate_count, entered, admitted_at,
                 admitted_by, last_msg, hkey, hreg, used_at>>

NextGateConc ==
  \/ \E t \in Transports, key \in RaceKeys : Receive(t, key)
  \/ \E t \in Transports : CheckSeen(t)
  \/ \E t \in Transports : DupLoad(t)
  \/ \E t \in Transports : DupStore(t)
  \/ \E t \in Transports : MarkSeen(t)
  \/ \E t \in Transports : Dispatch(t)

(***************************************************************************)
(* Transport contract: MeshtasticClient and its MQTT implementation.       *)
(***************************************************************************)
ConnectionState ==
  {"DISCONNECTED", "CONNECTING", "CONNECTED", "RECONNECTING", "ERROR"}

InitConn ==
  /\ state = "DISCONNECTED"
  /\ sequence = 0
  /\ outgoing_queue = <<>>
  /\ wire = <<>>
  /\ mqtt_client = FALSE
  /\ mqtt_connected = FALSE
  /\ loop = "stopped"
  /\ link = "down"
  /\ cpc = "idle"
  /\ hb_threads = 0
  /\ stop_heartbeat = FALSE
  /\ ops = 0

\* A GameMessage as the transport sees it: its kind and the sequence number
\* send() gave it.
Msg(kind, seq) == [kind |-> kind, seq |-> seq]

\* Mutant: the queue refuses a new entry when it is full (drop-newest).
QueueAppend_DropNewest(q, message) ==
  IF Len(q) >= QueueMaxLen THEN q
  ELSE Append(q, [message |-> message, attempts |-> 0])

\* _queue_message: deque.append on a deque(maxlen=100) discards the leftmost
\* entry when the deque is full.
QueueAppend(q, message) ==
  IF Len(q) >= QueueMaxLen
  THEN Append(Tail(q), [message |-> message, attempts |-> 0])
  ELSE Append(q, [message |-> message, attempts |-> 0])

\* Mutant: _flush_queue never gives a message up.
FlushedQueue_NoCeiling(q, k) ==
  LET rest == SubSeq(q, k + 1, Len(q)) IN
  IF rest = <<>> THEN <<>>
  ELSE <<[rest[1] EXCEPT !.attempts = @ + 1]>> \o Tail(rest)

\* _flush_queue on a Connected transport whose first k raw transmissions
\* succeed: the queue it leaves.
FlushedQueue(q, k) ==
  LET rest == SubSeq(q, k + 1, Len(q)) IN
  IF rest = <<>> THEN <<>>
  ELSE LET head == [rest[1] EXCEPT !.attempts = @ + 1] IN
       IF head.attempts >= MaxAttempts THEN Tail(rest)
       ELSE <<head>> \o Tail(rest)

\* ... and the messages it transmits.
FlushedWire(q, k) == [i \in 1..k |-> q[i].message]

\* MeshtasticClient.send with the state st: the next sequence number is
\* assigned; a Connected transport transmits (ok: _send_raw did not raise),
\* otherwise the message is queued.
SendIn(st, kind, ok) ==
  /\ sequence' = sequence + 1
  /\ IF st = "CONNECTED" /\ ok
     THEN /\ wire' = Append(wire, Msg(kind, sequence + 1))
          /\ UNCHANGED outgoing_queue
     ELSE /\ outgoing_queue' = QueueAppend(outgoing_queue, Msg(kind, sequence + 1))
          /\ UNCHANGED wire

\* send() called by the application.
Send(kind, ok) ==
  /\ ConnStep
  /\ SendIn(state, kind, ok)
  /\ UNCHANGED <<state, mqtt_client, mqtt_connected, loop, link, cpc,
                 hb_threads, stop_heartbeat, ops>>

\* _heartbeat_loop: one round of a live heartbeat loop.
Heartbeat(ok) ==
  /\ ConnStep
  /\ hb_threads > 0
  /\ ~stop_heartbeat
  /\ state = "CONNECTED"
  /\ SendIn(state, "HB", ok)
  /\ UNCHANGED <<state, mqtt_client, mqtt_connected, loop, link, cpc,
                 hb_threads, stop_heartbeat, ops>>

\* MQTTClient.connect up to its wait for the broker: a new paho client is
\* created; reach: the TCP connection to the broker is established, else
\* connect raises and the call ends in ERROR.
MqttConnect(reach) ==
  /\ ConnStep
  /\ cpc = "idle"
  /\ ops < MaxOps
  /\ ops' = ops + 1
  /\ mqtt_client' = TRUE
  /\ IF reach
     THEN /\ state' = "CONNECTING"
          /\ loop' = "running"
          /\ link' = "pending"
          /\ cpc' = "waiting"
     ELSE /\ state' = "ERROR"
          /\ loop' = "stopped"
          /\ link' = "down"
          /\ cpc' = "idle"
  /\ UNCHANGED <<sequence, outgoing_queue, wire, mqtt_connected, hb_threads,
                 stop_heartbeat>>

\* connect(): self._mqtt_connected.wait(timeout=10) returned True; the
\* heartbeat is started and the queue flushed (k raw sends succeed).
MqttWaitDone(k) ==
  /\ ConnStep
  /\ cpc = "waiting"
  /\ mqtt_connected
  /\ cpc' = "idle"
  /\ stop_heartbeat' = FALSE
  /\ hb_threads' = hb_threads + 1
  /\ IF state = "CONNECTED"
     THEN /\ k <= Len(outgoing_queue)
          /\ outgoing_queue' = FlushedQueue(outgoing_queue, k)
          /\ wire' = wire \o FlushedWire(outgoing_queue, k)
     ELSE /\ k = 0
          /\ UNCHANGED <<outgoing_queue, wire>>
  /\ UNCHANGED <<state, sequence, mqtt_client, mqtt_connected, loop, link, ops>>

\* connect(): the wait timed out; "Connection timeout", ERROR, return False.
\* The network loop started by loop_start() is left running.
MqttWaitTimeout ==
  /\ ConnStep
  /\ cpc = "waiting"
  /\ ~mqtt_connected
  /\ cpc' = "idle"
  /\ state' = "ERROR"
  /\ UNCHANGED <<sequence, outgoing_queue, wire, mqtt_client, mqtt_connected,
                 loop, link, hb_threads, stop_heartbeat, ops>>

\* _on_connect, called by the network loop when the broker answers.
MqttOnConnect(rc_ok, k) ==
  /\ ConnStep
  /\ loop = "running"
  /\ link = "pending"
  /\ IF rc_ok
     THEN /\ state' = "CONNECTED"
          /\ mqtt_connected' = TRUE
          /\ link' = "up"
          /\ k <= Len(outgoing_queue)
          /\ outgoing_queue' = FlushedQueue(outgoing_queue, k)
          /\ wire' = wire \o FlushedWire(outgoing_queue, k)
     ELSE /\ k = 0
          /\ state' = "ERROR"
          /\ link' = "down"
          /\ UNCHANGED <<mqtt_connected, outgoing_queue, wire>>
  /\ UNCHANGED <<sequence, mqtt_client, loop, cpc, hb_threads, stop_heartbeat, ops>>

\* _on_disconnect, called by the network loop when the session is lost.
MqttOnDisconnect ==
  /\ ConnStep
  /\ loop = "running"
  /\ link = "up"
  /\ link' = "down"
  /\ mqtt_connected' = FALSE
  /\ state' = IF state # "DISCONNECTED" THEN "RECONNECTING" ELSE state
  /\ UNCHANGED <<sequence, outgoing_queue, wire, mqtt_client, loop, cpc,
                 hb_threads, stop_heartbeat, ops>>

\* "paho-mqtt will auto-reconnect by default": the running network loop
\* re-establishes the session and the broker's answer is on its way.
MqttAutoReconnect ==
  /\ ConnStep
  /\ loop = "running"
  /\ link = "down"
  /\ link' = "pending"
  /\ UNCHANGED <<state, sequence, outgoing_queue, wire, mqtt_client,
                 mqtt_connected, cpc, loop, hb_threads, stop_heartbeat, ops>>

\* MQTTClient.disconnect
MqttDisconnect(ok) ==
  /\ ConnStep
  /\ cpc = "idle"
  /\ ops < MaxOps
  /\ ops' = ops + 1
  /\ stop_heartbeat' = TRUE
  /\ hb_threads' = 0
  /\ IF mqtt_client
     THEN /\ SendIn(state, "PL", ok)
          /\ loop' = "stopped"
          /\ link' = "down"
     ELSE /\ ok
          /\ UNCHANGED <<sequence, outgoing_queue, wire, loop, link>>
  /\ mqtt_connected' = FALSE
  /\ state' = "DISCONNECTED"
  /\ UNCHANGED <<mqtt_client, cpc>>

NextConn ==
  \/ \E ok \in BOOLEAN : sequence < MaxSends /\ Send("PM", ok)
  \/ \E ok \in BOOLEAN : sequence < MaxSends /\ Heartbeat(ok)
  \/ \E reach \in BOOLEAN : MqttConnect(reach)
  \/ \E k \in 0..MaxSends + MaxOps : MqttWaitDone(k)
  \/ MqttWaitTimeout
  \/ \E rc_ok \in BOOLEAN, k \in 0..MaxSends + MaxOps : MqttOnConnect(rc_ok, k)
  \/ MqttOnDisconnect
  \/ MqttAutoReconnect
  \/ \E ok \in BOOLEAN : MqttDisconnect(ok)

(***************************************************************************)
(* SerialClient over MeshtasticClient (NativeClient.connect and            *)
(* disconnect have the same shape).                                        *)
(***************************************************************************)
InitSerial == interface = FALSE

\* The ways SerialClient.connect ends after it set CONNECTING: connected;
\* no device found or the port cannot be opened; the interface opened and
\* a later call (getMyNodeInfo, pub.subscribe) raised.
ConnectOutcomes == {"connected", "not_opened", "failed_after_open"}

\* SerialClient.connect, lines 134-147: already Connected returns True,
\* otherwise the state becomes CONNECTING.
SerialConnectCall ==
  /\ SerialStep
  /\ cpc = "idle"
  /\ ops < MaxOps
  /\ ops' = ops + 1
  /\ IF state = "CONNECTED"
     THEN UNCHANGED <<state, cpc>>
     ELSE state' = "CONNECTING" /\ cpc' = "opening"
  /\ UNCHANGED <<sequence, outgoing_queue, wire, mqtt_client, mqtt_connected,
                 loop, link, hb_threads, stop_heartbeat, interface>>

\* SerialClient.connect, lines 149-195.
SerialConnectEnd(outcome) ==
  /\ SerialStep
  /\ cpc = "opening"
  /\ cpc' = "idle"
  /\ interface' = IF outcome = "not_opened" THEN interface ELSE TRUE
  /\ IF outcome = "connected"
     THEN /\ state' = "CONNECTED"
          /\ stop_heartbeat' = FALSE
          /\ hb_threads' = hb_threads + 1
     ELSE /\ state' = "ERROR"
          /\ UNCHANGED <<stop_heartbeat, hb_threads>>
  /\ UNCHANGED <<sequence, outgoing_queue, wire, mqtt_client, mqtt_connected,
                 loop, link, ops>>

\* SerialClient.disconnect
SerialDisconnect(ok) ==
  /\ SerialStep
  /\ cpc = "idle"
  /\ ops < MaxOps
  /\ ops' = ops + 1
  /\ stop_heartbeat' = TRUE
  /\ hb_threads' = 0
  /\ IF interface
     THEN SendIn(state, "PL", ok)
     ELSE ok /\ UNCHANGED <<sequence, outgoing_queue, wire>>
  /\ interface' = FALSE
  /\ state' = "DISCONNECTED"
  /\ UNCHANGED <<mqtt_client, mqtt_connected, loop, link, cpc>>

\* send() and the heartbeat loop of a SerialClient: those of the base class.
SerialSend(kind, ok) ==
  /\ SerialStep
  /\ SendIn(state, kind, ok)
  /\ UNCHANGED <<state, mqtt_client, mqtt_connected, loop, link, cpc,
                 hb_threads, stop_heartbeat, ops, interface>>

SerialHeartbeat(ok) ==
  /\ SerialStep
  /\ hb_threads > 0
  /\ ~stop_heartbeat
  /\ state = "CONNECTED"
  /\ SendIn(state, "HB", ok)
  /\ UNCHANGED <<state, mqtt_client, mqtt_connected, loop, link, cpc,
                 hb_threads, stop_heartbeat, ops, interface>>

NextSerial ==
  \/ \E ok \in BOOLEAN : sequence < MaxSends /\ SerialSend("PM", ok)
  \/ \E ok \in BOOLEAN : sequence < MaxSends /\ SerialHeartbeat(ok)
  \/ SerialConnectCall
  \/ \E outcome \in ConnectOutcomes : SerialConnectEnd(outcome)
  \/ \E ok \in BOOLEAN : SerialDisconnect(ok)

(***************************************************************************)
(* Inbound side of a transport: MeshtasticClient._handle_incoming.         *)
(***************************************************************************)
OwnId == "me"
Senders == {OwnId, "r1"}
Observers == {"cb1", "cb2"}

\* What the handler has met: no exception.
NoError == [error |-> "none", escaped |-> FALSE]

\* The kind tags of MessageType.
MessageTags == {"PJ", "PL", "HB", "PM", "PA", "RU", "OU", "SY", "SR", "CH", "TC"}

\* A missing key of the compact form.
Absent == "absent"

\* Received data: is it UTF-8, is it JSON, is the JSON value an object,
\* its "t" and "p" members.
Raw(utf8, json, object, t, p) ==
  [utf8 |-> utf8, json |-> json, object |-> object, t |-> t, p |-> p]

\* A well-formed move message of r1, and data that fails at each step of
\* the decoder.
RawInputs ==
  { Raw(TRUE, TRUE, TRUE, "PM", "r1"),
    Raw(FALSE, FALSE, FALSE, Absent, Absent),
    Raw(TRUE, FALSE, FALSE, Absent, Absent),
    Raw(TRUE, TRUE, FALSE, Absent, Absent),
    Raw(TRUE, TRUE, TRUE, Absent, "r1"),
    Raw(TRUE, TRUE, TRUE, "XX", "r1"),
    Raw(TRUE, TRUE, TRUE, "PM", Absent) }

\* A variant of the decoder that takes any tag for a kind.
DecodeMessage_AnyTag(raw) ==
  IF ~raw.utf8 THEN "UnicodeDecodeError"
  ELSE IF ~raw.json THEN "JSONDecodeError"
  ELSE IF ~raw.object THEN "TypeError"
  ELSE IF raw.t = Absent THEN "KeyError"
  ELSE IF raw.p = Absent THEN "KeyError"
  ELSE "none"

\* decode_message / GameMessage.from_compact: the exception it raises, in
\* the order of its steps (bytes.decode, json.loads, data["t"],
\* MessageType(...), data["p"]), or "none" if it returns a message.
DecodeMessage(raw) ==
  IF ~raw.utf8 THEN "UnicodeDecodeError"
  ELSE IF ~raw.json THEN "JSONDecodeError"
  ELSE IF ~raw.object THEN "TypeError"
  ELSE IF raw.t = Absent THEN "KeyError"
  ELSE IF raw.t \notin MessageTags THEN "ValueError"
  ELSE IF raw.p = Absent THEN "KeyError"
  ELSE "none"

\* except Exception (line 154): the classes it catches.
Caught(exc) ==
  exc \in {"UnicodeDecodeError", "JSONDecodeError", "TypeError", "KeyError",
           "ValueError"}

InitInbound ==
  /\ seen_sequences = [p \in Senders |-> {}]
  /\ highest = [p \in Senders |-> 0]
  /\ last_in = [player_id |-> OwnId, sequence |-> 0, passed_to |-> {}]
  /\ last_error = NoError

\* Mutant: the sequence of an admitted message is not recorded.
SeenAfter_Forget(seen, seq) == seen

\* seen.add(msg.sequence); if len(seen) > 1000: seen.clear()
SeenAfter(seen, seq) ==
  IF Cardinality(seen \cup {seq}) > SeenLimit THEN {} ELSE seen \cup {seq}

\* _handle_incoming with a decoded message of sender p and sequence seq.
HandleIncoming(p, seq) ==
  /\ InboundStep
  /\ highest' = [highest EXCEPT ![p] = IF p # OwnId /\ seq > @ THEN seq ELSE @]
  /\ IF p = OwnId \/ seq \in seen_sequences[p]
     THEN /\ UNCHANGED seen_sequences
          /\ last_in' = [player_id |-> p, sequence |-> seq, passed_to |-> {}]
     ELSE /\ seen_sequences' =
               [seen_sequences EXCEPT ![p] = SeenAfter(@, seq)]
          /\ last_in' = [player_id |-> p, sequence |-> seq, passed_to |-> Observers]
  /\ last_error' = NoError

\* _handle_incoming with received data: the message is decoded and handled,
\* or the decoder's exception is met by the except clause.
HandleData(raw, seq) ==
  LET exc == DecodeMessage(raw) IN
  IF exc = "none"
  THEN HandleIncoming(raw.p, seq)
  ELSE /\ InboundStep
       /\ last_error' = [error |-> exc, escaped |-> ~Caught(exc)]
       /\ UNCHANGED <<seen_sequences, highest, last_in>>

RemoteSenders == Senders \ {OwnId}

\* A remote sender counts its sequence numbers up; the network may repeat
\* its latest or its first message, and echoes the transport's own messages.
NextInbound ==
  \/ \E p \in RemoteSenders :
       highest[p] < MaxInbound /\ HandleIncoming(p, highest[p] + 1)
  \/ \E p \in RemoteSenders : highest[p] > 0 /\ HandleIncoming(p, highest[p])
  \/ \E p \in RemoteSenders : highest[p] > 0 /\ HandleIncoming(p, 1)
  \/ \E seq \in 1..2 : HandleIncoming(OwnId, seq)
  \/ \E raw \in RawInputs : HandleData(raw, 1)

\* A transport whose broker never answers: every send() finds it not
\* Connected.
NextOffline ==
  \/ sequence < MaxOfflineSends /\ state # "CONNECTED" /\ Send("PM", TRUE)
  \/ \E reach \in BOOLEAN : MqttConnect(reach)
  \/ MqttWaitTimeout

(***************************************************************************)
(* The threads of one MQTT transport: the application thread calling       *)
(* connect(), send() and disconnect(), the heartbeat threads, and the paho *)
(* network loop (MqttOnConnect, MqttOnDisconnect, MqttAutoReconnect).      *)
(***************************************************************************)
HbIds == {"hb1", "hb2"}
Threads == HbIds \cup {"app"}
NoThread == "none"

InitThreads ==
  /\ tpc = [t \in Threads |-> IF t = "app" THEN "idle" ELSE "none"]
  /\ tseq = [t \in Threads |-> 0]
  /\ heartbeat_thread = NoThread
  /\ dpc = "idle"
  /\ assigned = <<>>
  /\ last_ret = [called |-> FALSE, ok |-> FALSE, kind |-> "", seq |-> 0]
  /\ quiet = FALSE

\* The message a thread is sending: send_heartbeat in a heartbeat thread,
\* send_leave inside disconnect(), a move otherwise.
KindOf(t) == IF t \in HbIds THEN "HB" ELSE IF dpc = "leaving" THEN "PL" ELSE "PM"

\* Mutant: _next_sequence returns the counter without advancing it.
NextSequenceValue_Same(s) == s

\* _next_sequence: self._sequence += 1; return self._sequence
NextSequenceValue(s) == s + 1

\* send(), line 242, by thread t: msg.sequence = self._next_sequence()
\* (under _sequence_lock).
NextSequence(t) ==
  /\ ThreadStep
  /\ sequence < MaxSends
  /\ \/ t = "app" /\ tpc[t] = "idle" /\ cpc = "idle" /\ dpc \in {"idle", "leaving"}
     \/ t \in HbIds /\ tpc[t] = "checked"
  /\ sequence' = NextSequenceValue(sequence)
  /\ tseq' = [tseq EXCEPT ![t] = sequence']
  /\ assigned' = Append(assigned, sequence')
  /\ tpc' = [tpc EXCEPT ![t] = "assigned"]
  /\ UNCHANGED <<state, outgoing_queue, wire, mqtt_client, mqtt_connected,
                 loop, link, cpc, hb_threads, stop_heartbeat, ops>>
  /\ UNCHANGED <<heartbeat_thread, dpc, last_ret, quiet>>

\* Mutant: send() queues the message also when it was transmitted.
SendOutcome_AlsoQueued(t, ok) ==
  /\ wire' = IF state = "CONNECTED" /\ mqtt_client /\ ok
             THEN Append(wire, Msg(KindOf(t), tseq[t])) ELSE wire
  /\ outgoing_queue' = QueueAppend(outgoing_queue, Msg(KindOf(t), tseq[t]))
  /\ last_ret' = [called |-> TRUE, ok |-> state = "CONNECTED" /\ mqtt_client /\ ok,
                  kind |-> KindOf(t), seq |-> tseq[t]]

\* send(), lines 244-253: a Connected transport transmits (ok: publish
\* reported no error); otherwise, and when _send_raw raised, the message
\* is queued.
SendOutcome(t, ok) ==
  IF state = "CONNECTED" /\ mqtt_client /\ ok
  THEN /\ wire' = Append(wire, Msg(KindOf(t), tseq[t]))
       /\ last_ret' = [called |-> TRUE, ok |-> TRUE, kind |-> KindOf(t), seq |-> tseq[t]]
       /\ UNCHANGED outgoing_queue
  ELSE /\ outgoing_queue' = QueueAppend(outgoing_queue, Msg(KindOf(t), tseq[t]))
       /\ last_ret' = [called |-> TRUE, ok |-> FALSE, kind |-> KindOf(t), seq |-> tseq[t]]
       /\ UNCHANGED wire

\* The rest of send() by thread t, up to its return.
Transmit(t, ok) ==
  /\ ThreadStep
  /\ tpc[t] = "assigned"
  /\ SendOutcome(t, ok)
  /\ tpc' = [tpc EXCEPT ![t] = IF t = "app" THEN "idle" ELSE "waiting"]
  /\ dpc' = IF t = "app" /\ dpc = "leaving" THEN "closing" ELSE dpc
  /\ UNCHANGED <<state, sequence, mqtt_client, mqtt_connected, loop, link, cpc,
                 hb_threads, stop_heartbeat, ops>>
  /\ UNCHANGED <<tseq, heartbeat_thread, assigned, quiet>>

\* _heartbeat_loop, line 199: if self.state == ConnectionState.CONNECTED
HbMaySend(st) == st = "CONNECTED"

\* _heartbeat_loop: _stop_heartbeat.wait(interval) timed out (the event is
\* not set) and the state is tested.
HbWake(t) ==
  /\ ThreadStep
  /\ t \in HbIds
  /\ tpc[t] = "waiting"
  /\ ~stop_heartbeat
  /\ HbMaySend(state)
  /\ tpc' = [tpc EXCEPT ![t] = "checked"]
  /\ UNCHANGED connVars
  /\ UNCHANGED <<tseq, heartbeat_thread, dpc, assigned, last_ret, quiet>>

\* _heartbeat_loop: wait() returned True (the event is set); the thread ends.
HbExit(t) ==
  /\ ThreadStep
  /\ t \in HbIds
  /\ tpc[t] = "waiting"
  /\ stop_heartbeat
  /\ tpc' = [tpc EXCEPT ![t] = "exited"]
  /\ hb_threads' = hb_threads - 1
  /\ UNCHANGED <<state, sequence, outgoing_queue, wire, mqtt_client,
                 mqtt_connected, loop, link, cpc, stop_heartbeat, ops>>
  /\ UNCHANGED <<tseq, heartbeat_thread, dpc, assigned, last_ret, quiet>>

\* MQTTClient.connect called by the application thread, up to its wait
\* for the broker (lines 94-129).
ConnectCall(reach) ==
  /\ ThreadStep
  /\ tpc["app"] = "idle" /\ cpc = "idle" /\ dpc = "idle"
  /\ ops < MaxOps
  /\ \E h \in HbIds : tpc[h] = "none"
  /\ ops' = ops + 1
  /\ mqtt_client' = TRUE
  /\ quiet' = FALSE
  /\ IF reach
     THEN /\ state' = "CONNECTING"
          /\ loop' = "running"
          /\ link' = "pending"
          /\ cpc' = "waiting"
     ELSE /\ state' = "ERROR"
          /\ loop' = "stopped"
          /\ link' = "down"
          /\ cpc' = "idle"
  /\ UNCHANGED <<sequence, outgoing_queue, wire, mqtt_connected, hb_threads,
                 stop_heartbeat>>
  /\ UNCHANGED <<tpc, tseq, heartbeat_thread, dpc, assigned, last_ret>>

\* connect(), lines 132-143: the wait returned True; _start_heartbeat
\* clears the stop event and starts a new thread h; _flush_queue.
ConnectDone(h, k) ==
  /\ ThreadStep
  /\ cpc = "waiting"
  /\ mqtt_connected
  /\ h \in HbIds /\ tpc[h] = "none"
  /\ cpc' = "idle"
  /\ stop_heartbeat' = FALSE
  /\ heartbeat_thread' = h
  /\ tpc' = [tpc EXCEPT ![h] = "waiting"]
  /\ hb_threads' = hb_threads + 1
  /\ IF state = "CONNECTED"
     THEN /\ k <= Len(outgoing_queue)
          /\ outgoing_queue' = FlushedQueue(outgoing_queue, k)
          /\ wire' = wire \o FlushedWire(outgoing_queue, k)
     ELSE /\ k = 0
          /\ UNCHANGED <<outgoing_queue, wire>>
  /\ UNCHANGED <<state, sequence, mqtt_client, mqtt_connected, loop, link, ops>>
  /\ UNCHANGED <<tseq, dpc, assigned, last_ret, quiet>>

\* disconnect(), line 152, first half of _stop_heartbeat_thread: the stop
\* event is set.
DisconnectCall ==
  /\ ThreadStep
  /\ tpc["app"] = "idle" /\ cpc = "idle" /\ dpc = "idle"
  /\ ops < MaxOps
  /\ ops' = ops + 1
  /\ stop_heartbeat' = TRUE
  /\ dpc' = "joining"
  /\ UNCHANGED <<state, sequence, outgoing_queue, wire, mqtt_client,
                 mqtt_connected, loop, link, cpc, hb_threads>>
  /\ UNCHANGED <<tpc, tseq, heartbeat_thread, assigned, last_ret, quiet>>

\* _stop_heartbeat_thread, second half: self._heartbeat_thread has ended
\* and is joined (or there is none); then `if self._mqtt_client:`.
DisconnectJoined ==
  /\ ThreadStep
  /\ dpc = "joining"
  /\ IF heartbeat_thread = NoThread THEN TRUE
     ELSE tpc[heartbeat_thread] = "exited"
  /\ heartbeat_thread' = NoThread
  /\ dpc' = IF mqtt_client /\ sequence < MaxSends THEN "leaving" ELSE "closing"
  /\ UNCHANGED connVars
  /\ UNCHANGED <<tpc, tseq, assigned, last_ret, quiet>>

\* disconnect(), lines 160-166: loop_stop(), disconnect() of the paho
\* client, the connected event is cleared, the state set; return.
DisconnectReturn ==
  /\ ThreadStep
  /\ dpc = "closing"
  /\ dpc' = "idle"
  /\ IF mqtt_client
     THEN loop' = "stopped" /\ link' = "down"
     ELSE UNCHANGED <<loop, link>>
  /\ mqtt_connected' = FALSE
  /\ state' = "DISCONNECTED"
  /\ quiet' = TRUE
  /\ UNCHANGED <<sequence, outgoing_queue, wire, mqtt_client, cpc, hb_threads,
                 stop_heartbeat, ops>>
  /\ UNCHANGED <<tpc, tseq, heartbeat_thread, assigned, last_ret>>

NextThreads ==
  \/ \E t \in Threads : NextSequence(t)
  \/ \E t \in Threads, ok \in BOOLEAN : Transmit(t, ok)
  \/ \E t \in HbIds : HbWake(t)
  \/ \E t \in HbIds : HbExit(t)
  \/ \E reach \in BOOLEAN : ConnectCall(reach)
  \/ \E h \in HbIds, k \in 0..MaxSends : ConnectDone(h, k)
  \/ MqttWaitTimeout
  \/ \E rc_ok \in BOOLEAN, k \in 0..MaxSends : MqttOnConnect(rc_ok, k)
  \/ MqttOnDisconnect
  \/ MqttAutoReconnect
  \/ DisconnectCall
  \/ DisconnectJoined
  \/ DisconnectReturn

\* One connect() call, then the application thread and the heartbeat loop
\* send while the network loop loses and regains the broker session.
NextSenders ==
  \/ \E t \in Threads : NextSequence(t)
  \/ \E t \in Threads, ok \in BOOLEAN : Transmit(t, ok)
  \/ \E t \in HbIds : HbWake(t)
  \/ \E reach \in BOOLEAN : ops = 0 /\ ConnectCall(reach)
  \/ \E k \in 0..MaxSends : ConnectDone("hb1", k)
  \/ MqttWaitTimeout
  \/ \E rc_ok \in BOOLEAN, k \in 0..MaxSends : MqttOnConnect(rc_ok, k)
  \/ MqttOnDisconnect
  \/ MqttAutoReconnect

(***************************************************************************)
(* Hybrid Manager: connect, send, detection loop, disconnect.              *)
(***************************************************************************)
Kinds == {"MESHTASTIC_NATIVE", "MESHTASTIC_SERIAL", "MQTT"}

\* The order in which detect_available_transports lists what it found.
DetectOrder == <<"MESHTASTIC_NATIVE", "MESHTASTIC_SERIAL", "MQTT">>

\* The configured priority lists of the model: the default one, and one
\* that prefers the broker.
PriorityOrders ==
  { <<"MESHTASTIC_NATIVE", "MESHTASTIC_SERIAL", "MQTT">>,
    <<"MQTT", "MESHTASTIC_SERIAL", "MESHTASTIC_NATIVE">> }

\* self.config.transport_priority.index(tt)
PriorityIndex(tt) == CHOOSE i \in 1..Len(transport_priority) : transport_priority[i] = tt

\* _create_client returns a client (None for MESHTASTIC_NATIVE).
HasClient(tt) == tt \in Transports

InitHybrid ==
  /\ transport_priority \in PriorityOrders
  /\ registered = {}
  /\ tstate = [tt \in Kinds |-> "none"]
  /\ primary = NoTransport
  /\ status_available = [tt \in Kinds |-> FALSE]
  /\ status_connected = [tt \in Kinds |-> FALSE]
  /\ detection_running = FALSE
  /\ last_send = [called |-> FALSE, ok |-> FALSE, via |-> NoTransport]
  /\ last_connect = [called |-> FALSE, attempts |-> <<>>, connected |-> {},
                     ret |-> FALSE]
  /\ last_pass = [ran |-> FALSE, prim |-> NoTransport, lost |-> {}]

\* A variant that elects the first registered kind whatever its state.
RECURSIVE FirstConnected_AnyState(_, _, _)
FirstConnected_AnyState(i, reg, st) ==
  IF i > Len(transport_priority) THEN NoTransport
  ELSE IF transport_priority[i] \in reg
       THEN transport_priority[i]
       ELSE FirstConnected_AnyState(i + 1, reg, st)

\* The first kind of the priority list, from position i on, that is
\* registered and Connected in (reg, st); NoTransport if there is none.
RECURSIVE FirstConnected(_, _, _)
FirstConnected(i, reg, st) ==
  IF i > Len(transport_priority) THEN NoTransport
  ELSE IF transport_priority[i] \in reg /\ st[transport_priority[i]] = "CONNECTED"
       THEN transport_priority[i]
       ELSE FirstConnected(i + 1, reg, st)

\* A variant in which every kind that connects takes the primary role.
RECURSIVE PrimaryAfterConnect_Latest(_, _, _)
PrimaryAfterConnect_Latest(i, okset, prim) ==
  IF i > Len(transport_priority) THEN prim
  ELSE PrimaryAfterConnect_Latest(i + 1, okset,
         IF transport_priority[i] \in okset
         THEN transport_priority[i] ELSE prim)

\* connect(): the primary after the loop over the priority list, in which
\* the kinds of okset connected: the first of them if none was set.
RECURSIVE PrimaryAfterConnect(_, _, _)
PrimaryAfterConnect(i, okset, prim) ==
  IF i > Len(transport_priority) THEN prim
  ELSE PrimaryAfterConnect(i + 1, okset,
         IF transport_priority[i] \in okset /\ prim = NoTransport
         THEN transport_priority[i] ELSE prim)

\* connect(): the kinds the loop over the priority list does not skip, in
\* the order it reaches them (tt in transport_types), from position i on.
RECURSIVE ConnectAttempts(_, _)
ConnectAttempts(i, avail) ==
  IF i > Len(transport_priority) THEN <<>>
  ELSE IF transport_priority[i] \in avail
       THEN <<transport_priority[i]>> \o ConnectAttempts(i + 1, avail)
       ELSE ConnectAttempts(i + 1, avail)

\* connect(): connected_any after the loop, from position i on.
RECURSIVE ConnectedAny(_, _, _)
ConnectedAny(i, okset, any) ==
  IF i > Len(transport_priority) THEN any
  ELSE ConnectedAny(i + 1, okset, any \/ transport_priority[i] \in okset)

\* HybridTransport.connect() with auto-detection: avail are the kinds the
\* probes found, okset those whose client.connect() returned True.
HybridConnect(avail, okset) ==
  /\ HybridStep
  /\ okset \subseteq {tt \in avail : HasClient(tt)}
  /\ status_available' = [tt \in Kinds |-> tt \in avail]
  /\ registered' = registered \cup okset
  /\ tstate' = [tt \in Kinds |-> IF tt \in okset THEN "CONNECTED" ELSE tstate[tt]]
  /\ status_connected' = [tt \in Kinds |-> tt \in okset \/ status_connected[tt]]
  /\ primary' = PrimaryAfterConnect(1, okset, primary)
  /\ detection_running' = TRUE
  /\ last_connect' = [called |-> TRUE, attempts |-> ConnectAttempts(1, avail),
                      connected |-> okset, ret |-> ConnectedAny(1, okset, FALSE)]
  /\ UNCHANGED <<transport_priority, last_send, last_pass>>

\* send(): the fallback loop from position i of the priority list on.
\* rawok[tt]: the raw transmission of tt's client would succeed.
RECURSIVE FallbackSend(_, _)
FallbackSend(i, rawok) ==
  IF i > Len(transport_priority)
  THEN [called |-> TRUE, ok |-> FALSE, via |-> NoTransport]
  ELSE LET tt == transport_priority[i] IN
       IF tt # primary /\ tt \in registered /\ tstate[tt] = "CONNECTED"
       THEN [called |-> TRUE, ok |-> rawok[tt], via |-> tt]
       ELSE FallbackSend(i + 1, rawok)

\* HybridTransport.send: what it returns and the transport it used.
SendResult(rawok) ==
  IF primary = NoTransport
  THEN [called |-> TRUE, ok |-> FALSE, via |-> NoTransport]
  ELSE IF primary \in registered /\ tstate[primary] = "CONNECTED"
       THEN [called |-> TRUE, ok |-> rawok[primary], via |-> primary]
       ELSE FallbackSend(1, rawok)

\* HybridTransport.send (enable_fallback is on, the default).
HybridSend(rawok) ==
  /\ HybridStep
  /\ last_send' = SendResult(rawok)
  /\ UNCHANGED <<transport_priority, registered, tstate, primary,
                 status_available, status_connected, detection_running,
                 last_connect, last_pass>>

\* _detection_loop, "Update primary if higher priority" (lines 470-480):
\* the primary after the kind tt was connected and registered.
UpgradedPrimary(tt, prim) ==
  IF prim = NoTransport THEN tt
  ELSE IF PriorityIndex(tt) < PriorityIndex(prim) THEN tt
  ELSE prim

\* _detection_loop, first half: the primary after the newly connected
\* kinds of okset were registered, in the order of the detected list.
RECURSIVE PrimaryAfterDetect(_, _, _)
PrimaryAfterDetect(i, okset, prim) ==
  IF i > Len(DetectOrder) THEN prim
  ELSE LET tt == DetectOrder[i] IN
       PrimaryAfterDetect(i + 1, okset,
         IF tt \notin okset THEN prim ELSE UpgradedPrimary(tt, prim))

\* _detection_loop, first half: the kinds for which the pass tries to create
\* and connect a client (for tt in available: if tt not in self._transports).
DetectAttempts(avail, reg) == {tt \in avail : tt \notin reg}

\* One pass of _detection_loop: avail are the kinds the probes found, okset
\* the not yet registered ones among them whose client.connect() succeeded.
DetectionPass(avail, okset) ==
  /\ HybridStep
  /\ detection_running
  /\ okset \subseteq {tt \in DetectAttempts(avail, registered) : HasClient(tt)}
  /\ LET reg == registered \cup okset
         st == [tt \in Kinds |-> IF tt \in okset THEN "CONNECTED" ELSE tstate[tt]]
         prim == PrimaryAfterDetect(1, okset, primary)
         lost == {tt \in reg : st[tt] # "CONNECTED"}
     IN /\ status_available' = [tt \in Kinds |-> tt \in avail]
        /\ registered' = reg
        /\ tstate' = st
        /\ status_connected' =
             [tt \in Kinds |-> IF tt \in lost THEN FALSE
                               ELSE tt \in okset \/ status_connected[tt]]
        /\ primary' = IF prim \in lost THEN FirstConnected(1, reg, st) ELSE prim
        /\ last_pass' = [ran |-> TRUE, prim |-> prim, lost |-> lost]
  /\ UNCHANGED <<transport_priority, detection_running, last_send, last_connect>>

\* HybridTransport.disconnect
HybridDisconnect ==
  /\ HybridStep
  /\ detection_running' = FALSE
  /\ registered' = {}
  /\ tstate' = [tt \in Kinds |-> "none"]
  /\ primary' = NoTransport
  /\ UNCHANGED <<transport_priority, status_available, status_connected, last_send,
                 last_connect, last_pass>>

\* MQTTClient._on_disconnect on the registered MQTT client: the broker
\* session is lost.  (SerialClient leaves Connected only in disconnect().)
MqttLinkLoss ==
  /\ HybridStep
  /\ "MQTT" \in registered
  /\ tstate["MQTT"] = "CONNECTED"
  /\ tstate' = [tstate EXCEPT !["MQTT"] = "RECONNECTING"]
  /\ UNCHANGED <<transport_priority, registered, primary, status_available,
                 status_connected, detection_running, last_send,
                 last_connect, last_pass>>

\* MQTTClient._on_connect after paho's automatic reconnect: CONNECTED on
\* reason code 0, ERROR otherwise.
MqttLinkBack(rc_ok) ==
  /\ HybridStep
  /\ "MQTT" \in registered
  /\ tstate["MQTT"] \in {"RECONNECTING", "ERROR"}
  /\ tstate' = [tstate EXCEPT !["MQTT"] = IF rc_ok THEN "CONNECTED" ELSE "ERROR"]
  /\ UNCHANGED <<transport_priority, registered, primary, status_available,
                 status_connected, detection_running, last_send,
                 last_connect, last_pass>>

\* HybridTransport.connected_transports, the "connected" list of get_status
connected_transports == {tt \in registered : tstate[tt] = "CONNECTED"}

\* get_status()["transports"][tt]["connected"]
StatusConnected(tt) == status_connected[tt]

NextHybrid ==
  \/ \E avail \in SUBSET Kinds : \E okset \in SUBSET avail : HybridConnect(avail, okset)
  \/ \E rawok \in [Kinds -> BOOLEAN] : HybridSend(rawok)
  \/ \E avail \in SUBSET Kinds : \E okset \in SUBSET avail : DetectionPass(avail, okset)
  \/ HybridDisconnect
  \/ MqttLinkLoss
  \/ \E rc_ok \in BOOLEAN : MqttLinkBack(rc_ok)

(***************************************************************************)
(* The sequence numbers of the messages one player sends through the       *)
(* transports of a Hybrid Manager.  Every client is created with the same  *)
(* player name, hence the same player_id, and counts its own _sequence.    *)
(***************************************************************************)
InitKeys ==
  /\ kseq = [tt \in Transports |-> 0]
  /\ outbox = {}

\* MeshtasticClient.send of the client of tt: msg.sequence =
\* self._next_sequence(), then the message is transmitted or queued.
ClientSend(tt, kind) ==
  /\ Cardinality(outbox) < MaxKeyMsgs
  /\ kseq' = [kseq EXCEPT ![tt] = @ + 1]
  /\ outbox' = outbox \cup {[n |-> Cardinality(outbox) + 1, via |-> tt,
                             kind |-> kind, seq |-> kseq[tt] + 1]}

\* HybridTransport.send of an application message: the client of the
\* primary, or of the first Connected fallback, sends it.
KeySend(rawok) ==
  /\ KeyStep
  /\ last_send' = SendResult(rawok)
  /\ IF SendResult(rawok).via # NoTransport
     THEN ClientSend(SendResult(rawok).via, "app")
     ELSE UNCHANGED keyVars
  /\ UNCHANGED <<transport_priority, registered, tstate, primary,
                 status_available, status_connected, detection_running,
                 last_connect, last_pass>>

\* _heartbeat_loop of the client of tt, started by its connect(): when the
\* client is Connected it calls send_heartbeat, which calls send.
KeyHeartbeat(tt) ==
  /\ KeyStep
  /\ tt \in registered
  /\ tstate[tt] = "CONNECTED"
  /\ ClientSend(tt, "heartbeat")
  /\ UNCHANGED hybridVars

NextKeys ==
  \/ \E avail \in SUBSET Transports : \E okset \in SUBSET avail : HybridConnect(avail, okset)
  \/ \E rawok \in [Kinds -> BOOLEAN] : KeySend(rawok)
  \/ \E tt \in Transports : KeyHeartbeat(tt)
  \/ MqttLinkLoss
  \/ \E rc_ok \in BOOLEAN : MqttLinkBack(rc_ok)

(***************************************************************************)
(* HybridTransport.disconnect and a detection pass in flight.  The pass is *)
(* followed statement by statement: it blocks in client.connect().         *)
(***************************************************************************)
InitShut ==
  /\ stop_detection = FALSE
  /\ pass_pc = "none"
  /\ pass_i = 1
  /\ pass_avail = {}
  /\ closed = FALSE

\* HybridTransport.connect(); it starts the detection thread if there is
\* none (_start_detection_thread clears the stop event).  A connect() that
\* follows a disconnect() whose join timed out is taken once the old
\* thread has ended.
ShutConnect(avail, okset) ==
  /\ ShutStep
  /\ detection_running \/ pass_pc \in {"none", "exited"}
  /\ okset \subseteq {tt \in avail : HasClient(tt)}
  /\ status_available' = [tt \in Kinds |-> tt \in avail]
  /\ registered' = registered \cup okset
  /\ tstate' = [tt \in Kinds |-> IF tt \in okset THEN "CONNECTED" ELSE tstate[tt]]
  /\ status_connected' = [tt \in Kinds |-> tt \in okset \/ status_connected[tt]]
  /\ primary' = PrimaryAfterConnect(1, okset, primary)
  /\ detection_running' = TRUE
  /\ stop_detection' = (detection_running /\ stop_detection)
  /\ pass_pc' = IF detection_running THEN pass_pc ELSE "waiting"
  /\ closed' = FALSE
  /\ UNCHANGED <<transport_priority, last_send, last_connect, last_pass,
                 pass_i, pass_avail>>

\* _detection_loop: the wait of detection_interval ends with the stop event
\* clear; the pass probes the transports.
PassStart(avail) ==
  /\ ShutStep
  /\ pass_pc = "waiting"
  /\ ~stop_detection
  /\ status_available' = [tt \in Kinds |-> tt \in avail]
  /\ pass_avail' = avail
  /\ pass_i' = 1
  /\ pass_pc' = "loop"
  /\ UNCHANGED <<transport_priority, registered, tstate, primary, status_connected,
                 detection_running, last_send, last_connect, last_pass,
                 stop_detection, closed>>

\* _detection_loop: the wait ends with the stop event set; the thread ends.
PassExit ==
  /\ ShutStep
  /\ pass_pc = "waiting"
  /\ stop_detection
  /\ pass_pc' = "exited"
  /\ UNCHANGED <<hybridVars, stop_detection, pass_i, pass_avail, closed>>

\* for tt in available: if tt not in self._transports: the pass creates a
\* client and calls its connect(), which blocks; other kinds are skipped.
PassNext ==
  /\ ShutStep
  /\ pass_pc = "loop"
  /\ pass_i <= Len(DetectOrder)
  /\ LET tt == DetectOrder[pass_i] IN
       IF tt \in DetectAttempts(pass_avail, registered) /\ HasClient(tt)
       THEN pass_pc' = "connecting" /\ pass_i' = pass_i
       ELSE pass_pc' = "loop" /\ pass_i' = pass_i + 1
  /\ UNCHANGED <<hybridVars, stop_detection, pass_avail, closed>>

\* client.connect() returns to the pass: on True the client is registered,
\* its status recorded and its message callback installed (lines 463-468).
PassConnectReturn(ok) ==
  /\ ShutStep
  /\ pass_pc = "connecting"
  /\ LET tt == DetectOrder[pass_i] IN
       IF ok
       THEN /\ registered' = registered \cup {tt}
            /\ tstate' = [tstate EXCEPT ![tt] = "CONNECTED"]
            /\ status_connected' = [status_connected EXCEPT ![tt] = TRUE]
            /\ pass_pc' = "registered"
            /\ pass_i' = pass_i
       ELSE /\ UNCHANGED <<registered, tstate, status_connected>>
            /\ pass_pc' = "loop"
            /\ pass_i' = pass_i + 1
  /\ UNCHANGED <<transport_priority, primary, status_available, detection_running,
                 last_send, last_connect, last_pass,
                 stop_detection, pass_avail, closed>>

\* The pass goes on to "Update primary if higher priority" (lines 470-480)
\* for the kind it has just registered; HybridTransport has no lock, the
\* application thread may have run in between.
PassUpdatePrimary ==
  /\ ShutStep
  /\ pass_pc = "registered"
  /\ primary' = UpgradedPrimary(DetectOrder[pass_i], primary)
  /\ pass_pc' = "loop"
  /\ pass_i' = pass_i + 1
  /\ UNCHANGED <<transport_priority, registered, tstate, status_available,
                 status_connected, detection_running, last_send, last_connect,
                 last_pass, stop_detection, pass_avail, closed>>

\* The second loop of the pass (lines 486-501), then the thread waits again.
PassCheck ==
  /\ ShutStep
  /\ pass_pc = "loop"
  /\ pass_i > Len(DetectOrder)
  /\ LET lost == {tt \in registered : tstate[tt] # "CONNECTED"} IN
       /\ status_connected' =
            [tt \in Kinds |-> IF tt \in lost THEN FALSE ELSE status_connected[tt]]
       /\ primary' = IF primary \in lost THEN FirstConnected(1, registered, tstate)
                     ELSE primary
  /\ pass_pc' = "waiting"
  /\ UNCHANGED <<transport_priority, registered, tstate, status_available,
                 detection_running, last_send, last_connect, last_pass,
                 stop_detection, pass_i, pass_avail, closed>>

\* HybridTransport.disconnect(): sets the stop event, joins the detection
\* thread for at most 2 seconds, disconnects every client, clears the
\* registry and the primary.  A thread that is waiting ends within the
\* join; one that is inside a pass may outlast it.
ShutDisconnect ==
  /\ ShutStep
  /\ stop_detection' = TRUE
  /\ pass_pc' = IF pass_pc = "waiting" THEN "exited" ELSE pass_pc
  /\ detection_running' = FALSE
  /\ registered' = {}
  /\ tstate' = [tt \in Kinds |-> "none"]
  /\ primary' = NoTransport
  /\ closed' = TRUE
  /\ UNCHANGED <<transport_priority, status_available, status_connected, last_send,
                 last_connect, last_pass, pass_i, pass_avail>>

\* The broker session of the registered MQTT client is lost.
ShutLinkLoss ==
  /\ ShutStep
  /\ "MQTT" \in registered
  /\ tstate["MQTT"] = "CONNECTED"
  /\ tstate' = [tstate EXCEPT !["MQTT"] = "RECONNECTING"]
  /\ UNCHANGED <<transport_priority, registered, primary, status_available,
                 status_connected, detection_running, last_send,
                 last_connect, last_pass, shutVars>>

NextShut ==
  \/ \E avail \in SUBSET Kinds : \E okset \in SUBSET avail : ShutConnect(avail, okset)
  \/ \E avail \in SUBSET Kinds : PassStart(avail)
  \/ PassExit
  \/ PassNext
  \/ \E ok \in BOOLEAN : PassConnectReturn(ok)
  \/ PassUpdatePrimary
  \/ PassCheck
  \/ ShutDisconnect
  \/ ShutLinkLoss

(***************************************************************************)
(* Locks: which thread holds which lock while it runs observer callbacks   *)
(* or a raw transmission.  "app" is the application thread, "net" the      *)
(* transport's network thread, "sweep" the cleanup thread of the Presence  *)
(* Manager.                                                                *)
(***************************************************************************)
LThreads == {"app", "net", "sweep"}
NoHolder == "nobody"
LockIds == {"r1"}

\* The states each thread passes to _set_state: connect() and disconnect()
\* on the application thread, _on_connect and _on_disconnect on the
\* network thread.
StatesSetBy(t) ==
  IF t = "app" THEN {"CONNECTING", "DISCONNECTED", "ERROR"}
  ELSE {"CONNECTED", "RECONNECTING", "ERROR"}

InitLocks ==
  /\ lk_state = NoHolder
  /\ lk_queue = NoHolder
  /\ lk_presence = NoHolder
  /\ lpc = [t \in LThreads |-> "idle"]
  /\ lcb = [t \in LThreads |-> "none"]
  /\ in_raw = [t \in LThreads |-> FALSE]
  /\ lstate = "DISCONNECTED"
  /\ larg = [t \in LThreads |-> "DISCONNECTED"]
  /\ lqueue = 0
  /\ lattempts = 0
  /\ lroster = {}
  /\ lstale = {}
  /\ lplayer = "r1"

\* _set_state(st) is called.
SetStateCall(t, st) ==
  /\ LockStep
  /\ lpc[t] = "idle"
  /\ st \in StatesSetBy(t)
  /\ lpc' = [lpc EXCEPT ![t] = "set_state"]
  /\ larg' = [larg EXCEPT ![t] = st]
  /\ UNCHANGED <<lk_state, lk_queue, lk_presence, lcb, in_raw, lstate, lqueue,
                 lattempts, lroster, lstale, lplayer>>

\* _set_state: with self._state_lock; on a change the state is assigned and
\* the state callbacks are called inside the with block.
SetStateLocked(t) ==
  /\ LockStep
  /\ lpc[t] = "set_state"
  /\ lk_state = NoHolder
  /\ lk_state' = t
  /\ IF lstate # larg[t]
     THEN /\ lstate' = larg[t]
          /\ lcb' = [lcb EXCEPT ![t] = "state"]
          /\ lpc' = [lpc EXCEPT ![t] = "state_callbacks"]
     ELSE /\ lpc' = [lpc EXCEPT ![t] = "state_release"]
          /\ UNCHANGED <<lstate, lcb>>
  /\ UNCHANGED <<lk_queue, lk_presence, in_raw, larg, lqueue, lattempts, lroster,
                 lstale, lplayer>>

\* _set_state: the loop over the state callbacks ends.
SetStateCallbacksEnd(t) ==
  /\ LockStep
  /\ lpc[t] = "state_callbacks"
  /\ lcb' = [lcb EXCEPT ![t] = "none"]
  /\ lpc' = [lpc EXCEPT ![t] = "state_release"]
  /\ UNCHANGED <<lk_state, lk_queue, lk_presence, in_raw, lstate, larg, lqueue,
                 lattempts, lroster, lstale, lplayer>>

\* _set_state: the with block is left.
SetStateRelease(t) ==
  /\ LockStep
  /\ lpc[t] = "state_release"
  /\ lk_state' = NoHolder
  /\ lpc' = [lpc EXCEPT ![t] = "idle"]
  /\ UNCHANGED <<lk_queue, lk_presence, lcb, in_raw, lstate, larg, lqueue,
                 lattempts, lroster, lstale, lplayer>>

\* _handle_incoming / HybridTransport._handle_message on the network
\* thread: the message observers are called, no lock is taken.
MessageCallbacks ==
  /\ LockStep
  /\ lpc["net"] = "idle"
  /\ lcb' = [lcb EXCEPT !["net"] = "message"]
  /\ lpc' = [lpc EXCEPT !["net"] = "message_callbacks"]
  /\ UNCHANGED <<lk_state, lk_queue, lk_presence, in_raw, lstate, larg, lqueue,
                 lattempts, lroster, lstale, lplayer>>

\* The message observers call PresenceManager.handle_message with a join
\* or a leave of id, or return.
MessageCallbacksEnd(next, id) ==
  /\ LockStep
  /\ lpc["net"] = "message_callbacks"
  /\ next \in {"idle", "join", "leave"}
  /\ lcb' = [lcb EXCEPT !["net"] = "none"]
  /\ lpc' = [lpc EXCEPT !["net"] = next]
  /\ lplayer' = id
  /\ UNCHANGED <<lk_state, lk_queue, lk_presence, in_raw, lstate, larg, lqueue,
                 lattempts, lroster, lstale>>

\* _handle_join: the with block (is_new, the entry is stored), the lock is
\* released, then the join callbacks if the id was new.
JoinLocked ==
  /\ LockStep
  /\ lpc["net"] = "join"
  /\ lk_presence = NoHolder
  /\ lroster' = lroster \cup {lplayer}
  /\ IF lplayer \notin lroster
     THEN /\ lcb' = [lcb EXCEPT !["net"] = "join"]
          /\ lpc' = [lpc EXCEPT !["net"] = "presence_callbacks"]
     ELSE /\ lpc' = [lpc EXCEPT !["net"] = "idle"]
          /\ UNCHANGED lcb
  /\ UNCHANGED <<lk_state, lk_queue, lk_presence, in_raw, lstate, larg, lqueue,
                 lattempts, lstale, lplayer>>

\* _handle_leave: the with block (pop), the lock is released, then the
\* leave callbacks if an entry was popped.
LeaveLocked ==
  /\ LockStep
  /\ lpc["net"] = "leave"
  /\ lk_presence = NoHolder
  /\ lroster' = lroster \ {lplayer}
  /\ IF lplayer \in lroster
     THEN /\ lcb' = [lcb EXCEPT !["net"] = "leave"]
          /\ lpc' = [lpc EXCEPT !["net"] = "presence_callbacks"]
     ELSE /\ lpc' = [lpc EXCEPT !["net"] = "idle"]
          /\ UNCHANGED lcb
  /\ UNCHANGED <<lk_state, lk_queue, lk_presence, in_raw, lstate, larg, lqueue,
                 lattempts, lstale, lplayer>>

\* The join or leave callbacks of the message thread return.
PresenceCallbacksEnd ==
  /\ LockStep
  /\ lpc["net"] = "presence_callbacks"
  /\ lcb' = [lcb EXCEPT !["net"] = "none"]
  /\ lpc' = [lpc EXCEPT !["net"] = "idle"]
  /\ UNCHANGED <<lk_state, lk_queue, lk_presence, in_raw, lstate, larg, lqueue,
                 lattempts, lroster, lstale, lplayer>>

\* _cleanup_stale: with self._lock; stale_ids is computed (stale: the
\* entries the clock makes stale).
SweepLocked(stale) ==
  /\ LockStep
  /\ lpc["sweep"] = "idle"
  /\ lk_presence = NoHolder
  /\ stale \subseteq lroster
  /\ lk_presence' = "sweep"
  /\ lstale' = stale
  /\ lpc' = [lpc EXCEPT !["sweep"] = "sweep_loop"]
  /\ UNCHANGED <<lk_state, lk_queue, lcb, in_raw, lstate, larg, lqueue, lattempts,
                 lroster, lplayer>>

\* _cleanup_stale: for pid in stale_ids: the entry is popped and the leave
\* callbacks are called, inside the with block.
SweepPop(id) ==
  /\ LockStep
  /\ lpc["sweep"] = "sweep_loop"
  /\ id \in lstale
  /\ lroster' = lroster \ {id}
  /\ lstale' = lstale \ {id}
  /\ lcb' = [lcb EXCEPT !["sweep"] = "leave"]
  /\ lpc' = [lpc EXCEPT !["sweep"] = "sweep_callbacks"]
  /\ UNCHANGED <<lk_state, lk_queue, lk_presence, in_raw, lstate, larg, lqueue,
                 lattempts, lplayer>>

\* _cleanup_stale: the leave callbacks of one popped entry return.
SweepCallbacksEnd ==
  /\ LockStep
  /\ lpc["sweep"] = "sweep_callbacks"
  /\ lcb' = [lcb EXCEPT !["sweep"] = "none"]
  /\ lpc' = [lpc EXCEPT !["sweep"] = "sweep_loop"]
  /\ UNCHANGED <<lk_state, lk_queue, lk_presence, in_raw, lstate, larg, lqueue,
                 lattempts, lroster, lstale, lplayer>>

\* _cleanup_stale: the loop is over, the with block is left.
SweepRelease ==
  /\ LockStep
  /\ lpc["sweep"] = "sweep_loop"
  /\ lstale = {}
  /\ lk_presence' = NoHolder
  /\ lpc' = [lpc EXCEPT !["sweep"] = "idle"]
  /\ UNCHANGED <<lk_state, lk_queue, lcb, in_raw, lstate, larg, lqueue, lattempts,
                 lroster, lstale, lplayer>>

\* A join or leave callback calls a roster query of the Presence Manager
\* (MultiplayerManager._handle_player_join and _handle_player_leave call
\* get_players_in_room): the thread waits for self._lock.
QueryCall(t) ==
  /\ LockStep
  /\ \/ t = "net" /\ lpc[t] = "presence_callbacks"
     \/ t = "sweep" /\ lpc[t] = "sweep_callbacks"
  /\ lpc' = [lpc EXCEPT ![t] = "query_wait"]
  /\ UNCHANGED <<lk_state, lk_queue, lk_presence, lcb, in_raw, lstate, larg,
                 lqueue, lattempts, lroster, lstale, lplayer>>

\* get_players_in_room: with self._lock, the entries are filtered, the
\* lock is released and the list is returned to the callback.
QueryReturn(t) ==
  /\ LockStep
  /\ lpc[t] = "query_wait"
  /\ lk_presence = NoHolder
  /\ lpc' = [lpc EXCEPT ![t] = IF t = "sweep" THEN "sweep_callbacks"
                                ELSE "presence_callbacks"]
  /\ UNCHANGED <<lk_state, lk_queue, lk_presence, lcb, in_raw, lstate, larg,
                 lqueue, lattempts, lroster, lstale, lplayer>>

\* _flush_queue on the network thread (called by _on_connect): it returns
\* unless the state is CONNECTED, then waits for self._queue_lock.
FlushCall ==
  /\ LockStep
  /\ lpc["net"] = "idle"
  /\ lstate = "CONNECTED"
  /\ lpc' = [lpc EXCEPT !["net"] = "flush_wait"]
  /\ UNCHANGED <<lk_state, lk_queue, lk_presence, lcb, in_raw, lstate, larg,
                 lqueue, lattempts, lroster, lstale, lplayer>>

\* _flush_queue: with self._queue_lock
FlushLocked ==
  /\ LockStep
  /\ lpc["net"] = "flush_wait"
  /\ lk_queue = NoHolder
  /\ lk_queue' = "net"
  /\ lpc' = [lpc EXCEPT !["net"] = "flush_loop"]
  /\ UNCHANGED <<lk_state, lk_presence, lcb, in_raw, lstate, larg, lqueue,
                 lattempts, lroster, lstale, lplayer>>

\* _flush_queue: while self._outgoing_queue: _send_raw(head) is entered,
\* inside the with block; an empty queue ends the block.
FlushNext ==
  /\ LockStep
  /\ lpc["net"] = "flush_loop"
  /\ IF lqueue = 0
     THEN /\ lk_queue' = NoHolder
          /\ lpc' = [lpc EXCEPT !["net"] = "idle"]
          /\ UNCHANGED in_raw
     ELSE /\ in_raw' = [in_raw EXCEPT !["net"] = TRUE]
          /\ lpc' = [lpc EXCEPT !["net"] = "flush_raw"]
          /\ UNCHANGED lk_queue
  /\ UNCHANGED <<lk_state, lk_presence, lcb, lstate, larg, lqueue, lattempts,
                 lroster, lstale, lplayer>>

\* _flush_queue: _send_raw returns (popleft) or raises (attempts += 1, the
\* entry is dropped at MaxAttempts, break ends the with block).
FlushRawReturn(ok) ==
  /\ LockStep
  /\ lpc["net"] = "flush_raw"
  /\ in_raw' = [in_raw EXCEPT !["net"] = FALSE]
  /\ IF ok
     THEN /\ lqueue' = lqueue - 1
          /\ lattempts' = 0
          /\ lpc' = [lpc EXCEPT !["net"] = "flush_loop"]
          /\ UNCHANGED lk_queue
     ELSE /\ lqueue' = IF lattempts + 1 >= MaxAttempts THEN lqueue - 1 ELSE lqueue
          /\ lattempts' = IF lattempts + 1 >= MaxAttempts THEN 0 ELSE lattempts + 1
          /\ lk_queue' = NoHolder
          /\ lpc' = [lpc EXCEPT !["net"] = "idle"]
  /\ UNCHANGED <<lk_state, lk_presence, lcb, lstate, larg, lroster, lstale, lplayer>>

\* send() on the application thread: _send_raw if the state is CONNECTED,
\* _queue_message otherwise.
AppSend ==
  /\ LockStep
  /\ lpc["app"] = "idle"
  /\ lqueue < MaxLockQueue
  /\ IF lstate = "CONNECTED"
     THEN /\ in_raw' = [in_raw EXCEPT !["app"] = TRUE]
          /\ lpc' = [lpc EXCEPT !["app"] = "send_raw"]
     ELSE /\ lpc' = [lpc EXCEPT !["app"] = "queue_wait"]
          /\ UNCHANGED in_raw
  /\ UNCHANGED <<lk_state, lk_queue, lk_presence, lcb, lstate, larg, lqueue,
                 lattempts, lroster, lstale, lplayer>>

\* send(): _send_raw returns, or raises and the message is to be queued.
AppRawReturn(ok) ==
  /\ LockStep
  /\ lpc["app"] = "send_raw"
  /\ in_raw' = [in_raw EXCEPT !["app"] = FALSE]
  /\ lpc' = [lpc EXCEPT !["app"] = IF ok THEN "idle" ELSE "queue_wait"]
  /\ UNCHANGED <<lk_state, lk_queue, lk_presence, lcb, lstate, larg, lqueue,
                 lattempts, lroster, lstale, lplayer>>

\* _queue_message: with self._queue_lock: append
AppQueued ==
  /\ LockStep
  /\ lpc["app"] = "queue_wait"
  /\ lk_queue = NoHolder
  /\ lqueue' = IF lqueue < MaxLockQueue THEN lqueue + 1 ELSE lqueue
  /\ lpc' = [lpc EXCEPT !["app"] = "idle"]
  /\ UNCHANGED <<lk_state, lk_queue, lk_presence, lcb, in_raw, lstate, larg,
                 lattempts, lroster, lstale, lplayer>>

NextLocks ==
  \/ \E t \in {"app", "net"} : \E st \in ConnectionState : SetStateCall(t, st)
  \/ \E t \in {"app", "net"} : SetStateLocked(t)
  \/ \E t \in {"app", "net"} : SetStateCallbacksEnd(t)
  \/ \E t \in {"app", "net"} : SetStateRelease(t)
  \/ MessageCallbacks
  \/ \E next \in {"idle", "join", "leave"} : \E id \in LockIds : MessageCallbacksEnd(next, id)
  \/ JoinLocked
  \/ LeaveLocked
  \/ PresenceCallbacksEnd
  \/ \E stale \in SUBSET LockIds : SweepLocked(stale)
  \/ \E id \in LockIds : SweepPop(id)
  \/ SweepCallbacksEnd
  \/ SweepRelease
  \/ \E t \in {"net", "sweep"} : QueryCall(t)
  \/ \E t \in {"net", "sweep"} : QueryReturn(t)
  \/ FlushCall
  \/ FlushLocked
  \/ FlushNext
  \/ \E ok \in BOOLEAN : FlushRawReturn(ok)
  \/ AppSend
  \/ \E ok \in BOOLEAN : AppRawReturn(ok)
  \/ AppQueued

(***************************************************************************)
(* Presence Manager                                                        *)
(***************************************************************************)
LocalPlayerId == "me"
RemoteIds == {"r1", "r2"}
PlayerIds == RemoteIds \cup {LocalPlayerId}

\* Room numbers a message can carry: 1 and 2 are in ROOM_IDS, 0 is not.
RoomNums == {0, 1, 2}

\* ROOM_NAMES.get(num, default)
RoomName(num, default) ==
  IF num = 1 THEN "whous" ELSE IF num = 2 THEN "lroom" ELSE default

\* The display names a join message can carry; NoName: it has no "n" key.
NoName == ""
JoinNames == {"Ann", NoName}

\* msg.data.get("n", msg.player_id)
NameOf(id, nm) == IF nm = NoName THEN id ELSE nm

\* The message kinds handle_message dispatches on.
PresenceKinds == {"join", "leave", "move", "heartbeat", "action", "chat"}

\* No move callback was called.
NoArgs == <<>>

\* What handle_message was given and which callbacks it has invoked.
Handled(kind, id, fired) == [kind |-> kind, id |-> id, fired |-> fired]

NoPlayer == [in |-> FALSE, name |-> "", room_id |-> "", last_seen |-> 0]

\* PlayerInfo(player_id, name, room_id) created at time t.
PlayerInfo(name, room_id, t) ==
  [in |-> TRUE, name |-> name, room_id |-> room_id, last_seen |-> t]

InitPresence ==
  /\ players = [id \in PlayerIds |-> NoPlayer]
  /\ ptime = 0
  /\ ppc = "idle"
  /\ pplayer = LocalPlayerId
  /\ created = [id \in PlayerIds |-> 0]
  /\ join_fired = [id \in PlayerIds |-> 0]
  /\ leave_fired = [id \in PlayerIds |-> 0]
  /\ handled = 0
  /\ last_handled = [kind |-> "none", id |-> LocalPlayerId, fired |-> {}]
  /\ move_args = NoArgs
  /\ observed_at = [id \in PlayerIds |-> NoTime]

\* Mutant: is_stale tests the wrong side of the timeout.
IsStale_Inverted(player, t) == t - player.last_seen < HeartbeatTimeout

\* PlayerInfo.is_stale(timeout)
IsStale(player, t) == t - player.last_seen > HeartbeatTimeout

\* _cleanup_stale: stale_ids
StaleIds == {id \in PlayerIds : players[id].in /\ IsStale(players[id], ptime)}

\* The wall clock advances.
PTick ==
  /\ PresenceStep
  /\ ptime < MaxPTime
  /\ ptime' = ptime + 1
  /\ UNCHANGED <<players, ppc, pplayer, created, join_fired, leave_fired, handled,
                 last_handled, move_args, observed_at>>

\* The time of the latest message handled from each id of the roster, after
\* a message of id was handled.
ObservedAfter(id) ==
  [o \in PlayerIds |-> IF ~players'[o].in THEN NoTime
                       ELSE IF o = id THEN ptime
                       ELSE observed_at[o]]

\* A variant that takes no message for one of the local player.
IsOwn_Never(id) == FALSE

\* handle_message: msg.player_id == self.local_player_id
IsOwn(id) == id = LocalPlayerId

\* A variant of the join handler's test that finds every sender new.
IsNew_Always(roster, id) == TRUE

\* _handle_join: is_new = msg.player_id not in self._players
IsNew(roster, id) == ~roster[id].in

\* A variant of the pop that leaves the entry in the roster.
Popped_Kept(roster, id) == roster

\* _handle_leave: the roster after self._players.pop(msg.player_id, None)
Popped(roster, id) == [roster EXCEPT ![id] = NoPlayer]

\* handle_message entered by the message thread (a message of the local
\* player is ignored by every handler).
Accepts(id) ==
  /\ ppc = "idle"
  /\ handled < MaxPresenceMsgs
  /\ handled' = handled + 1
  /\ ~IsOwn(id)

\* handle_message with a message of the local player: ignored.
HandleOwn(kind) ==
  /\ PresenceStep
  /\ ppc = "idle"
  /\ handled < MaxPresenceMsgs
  /\ handled' = handled + 1
  /\ last_handled' = Handled(kind, LocalPlayerId, {})
  /\ move_args' = NoArgs
  /\ UNCHANGED <<players, ptime, ppc, pplayer, created, join_fired, leave_fired,
                 observed_at>>

\* _handle_join
HandleJoin(id, num, nm) ==
  /\ PresenceStep
  /\ Accepts(id)
  /\ players' = [players EXCEPT ![id] =
                   PlayerInfo(NameOf(id, nm), RoomName(num, "whous"), ptime)]
  /\ created' = [created EXCEPT ![id] = IF players[id].in THEN @ ELSE @ + 1]
  /\ join_fired' = [join_fired EXCEPT ![id] = IF IsNew(players, id) THEN @ + 1 ELSE @]
  /\ last_handled' = Handled("join", id, IF IsNew(players, id) THEN {"join"} ELSE {})
  /\ move_args' = NoArgs
  /\ observed_at' = ObservedAfter(id)
  /\ UNCHANGED <<ptime, ppc, pplayer, leave_fired>>

\* _handle_leave, the locked section: self._players.pop(msg.player_id, None)
HandleLeave(id) ==
  /\ PresenceStep
  /\ Accepts(id)
  /\ players' = Popped(players, id)
  /\ IF players[id].in
     THEN ppc' = "leave_callbacks" /\ pplayer' = id
     ELSE UNCHANGED <<ppc, pplayer>>
  /\ last_handled' = Handled("leave", id, {})
  /\ move_args' = NoArgs
  /\ observed_at' = ObservedAfter(id)
  /\ UNCHANGED <<ptime, created, join_fired, leave_fired>>

\* _handle_leave, after the lock is released: the leave callbacks.
LeaveCallbacks ==
  /\ PresenceStep
  /\ ppc = "leave_callbacks"
  /\ leave_fired' = [leave_fired EXCEPT ![pplayer] = @ + 1]
  /\ ppc' = "idle"
  /\ last_handled' = Handled("leave", pplayer, {"leave"})
  /\ move_args' = NoArgs
  /\ UNCHANGED <<players, ptime, pplayer, created, join_fired, handled,
                 observed_at>>

\* A variant of update_seen that keeps the old time.
UpdateSeen_Keep(player, t) == player

\* PlayerInfo.update_seen: self.last_seen = time.time()
UpdateSeen(player, t) == [player EXCEPT !.last_seen = t]

\* A variant of the move that leaves the known player where it was.
Moved_KeepRoom(roster, id, to_room, t) ==
  IF roster[id].in
  THEN [roster EXCEPT ![id] = UpdateSeen(@, t)]
  ELSE [roster EXCEPT ![id] = PlayerInfo(id, to_room, t)]

\* _handle_move, the locked section: a known player gets the room and is
\* seen, for an unknown one an entry named by the id is stored.
Moved(roster, id, to_room, t) ==
  IF roster[id].in
  THEN [roster EXCEPT ![id] = UpdateSeen([@ EXCEPT !.room_id = to_room], t)]
  ELSE [roster EXCEPT ![id] = PlayerInfo(id, to_room, t)]

\* _handle_move: f and num are the "f" and "r" numbers of the message
\* (0 also stands for a missing key, msg.data.get(.., 0)).
HandleMove(id, f, num) ==
  /\ PresenceStep
  /\ Accepts(id)
  /\ players' = Moved(players, id, RoomName(num, "whous"), ptime)
  /\ created' = [created EXCEPT ![id] = IF players[id].in THEN @ ELSE @ + 1]
  /\ last_handled' = Handled("move", id, {"move"})
  /\ move_args' = <<RoomName(f, ""), RoomName(num, "whous")>>
  /\ observed_at' = ObservedAfter(id)
  /\ UNCHANGED <<ptime, ppc, pplayer, join_fired, leave_fired>>

\* _handle_heartbeat
HandleHeartbeat(id, num) ==
  /\ PresenceStep
  /\ Accepts(id)
  /\ players' = IF players[id].in
                THEN [players EXCEPT ![id] =
                        UpdateSeen([@ EXCEPT !.room_id = RoomName(num, "whous")], ptime)]
                ELSE players
  /\ last_handled' = Handled("heartbeat", id, {})
  /\ move_args' = NoArgs
  /\ observed_at' = ObservedAfter(id)
  /\ UNCHANGED <<ptime, ppc, pplayer, created, join_fired, leave_fired>>

\* _handle_action: a known player is seen and the action callbacks are
\* called; for an unknown one nothing is done.
HandleAction(id) ==
  /\ PresenceStep
  /\ Accepts(id)
  /\ players' = IF players[id].in
                THEN [players EXCEPT ![id] = UpdateSeen(@, ptime)]
                ELSE players
  /\ last_handled' = Handled("action", id, IF players[id].in THEN {"action"} ELSE {})
  /\ move_args' = NoArgs
  /\ observed_at' = ObservedAfter(id)
  /\ UNCHANGED <<ptime, ppc, pplayer, created, join_fired, leave_fired>>

\* _handle_chat: a known player is seen; for an unknown one a PlayerInfo is
\* made for the callbacks only, it is not stored in the roster.
HandleChat(id) ==
  /\ PresenceStep
  /\ Accepts(id)
  /\ players' = IF players[id].in
                THEN [players EXCEPT ![id] = UpdateSeen(@, ptime)]
                ELSE players
  /\ last_handled' = Handled("chat", id, {"chat"})
  /\ move_args' = NoArgs
  /\ observed_at' = ObservedAfter(id)
  /\ UNCHANGED <<ptime, ppc, pplayer, created, join_fired, leave_fired>>

\* _cleanup_stale, run by the cleanup thread: under the lock, every stale
\* entry is popped and the leave callbacks are called with it.
CleanupStale ==
  /\ PresenceStep
  /\ players' = [id \in PlayerIds |-> IF id \in StaleIds THEN NoPlayer ELSE players[id]]
  /\ leave_fired' = [id \in PlayerIds |->
                       IF id \in StaleIds THEN leave_fired[id] + 1 ELSE leave_fired[id]]
  /\ observed_at' = ObservedAfter(LocalPlayerId)
  /\ UNCHANGED <<ptime, ppc, pplayer, created, join_fired, handled, last_handled,
                 move_args>>

\* get_all_players: the ids of the snapshot
get_all_players(roster) == {id \in PlayerIds : roster[id].in}

\* get_players_in_room
get_players_in_room(roster, room_id) ==
  {id \in PlayerIds : roster[id].in /\ roster[id].room_id = room_id}

\* get_player_count
get_player_count(roster) == Cardinality({id \in PlayerIds : roster[id].in})

NextPresence ==
  \/ PTick
  \/ \E kind \in PresenceKinds : HandleOwn(kind)
  \/ \E id \in PlayerIds, num \in RoomNums, nm \in JoinNames : HandleJoin(id, num, nm)
  \/ \E id \in PlayerIds : HandleLeave(id)
  \/ LeaveCallbacks
  \/ \E id \in PlayerIds, f \in RoomNums, num \in RoomNums : HandleMove(id, f, num)
  \/ \E id \in PlayerIds, num \in RoomNums : HandleHeartbeat(id, num)
  \/ \E id \in PlayerIds : HandleAction(id)
  \/ \E id \in PlayerIds : HandleChat(id)
  \/ CleanupStale

(***************************************************************************)
(* Wire codec                                                              *)
(***************************************************************************)
PROTOCOL_VERSION == 1

\* s[:n]
Take(s, n) == SubSeq(s, 1, IF Len(s) < n THEN Len(s) ELSE n)

\* A text of n characters c.
Chars(c, n) == [i \in 1..n |-> c]

\* MessageType: member name -> value
MessageType ==
  [PLAYER_JOIN |-> <<"P", "J">>, PLAYER_LEAVE |-> <<"P", "L">>,
   HEARTBEAT |-> <<"H", "B">>, CHAT |-> <<"C", "H">>]

\* MessageType(value): the member with that value
MessageTypeOf(value) == CHOOSE name \in DOMAIN MessageType : MessageType[name] = value

\* ROOM_IDS.get(room_id, 0)
RoomId(room_id) == IF room_id = "whous" THEN 1 ELSE IF room_id = "lroom" THEN 2 ELSE 0

\* JSON values: numbers, strings and objects (an object is the sequence of
\* its members, in insertion order).
JNum(n) == [kind |-> "num", num |-> n, str |-> <<>>, obj |-> <<>>]
JStr(s) == [kind |-> "str", num |-> 0, str |-> s, obj |-> <<>>]
JObj(members) == [kind |-> "obj", num |-> 0, str |-> <<>>, obj |-> members]
Member(key, val) == [key |-> key, val |-> val]

\* dict.get(key, default)
Get(members, key, default) ==
  IF \E i \in 1..Len(members) : members[i].key = key
  THEN members[CHOOSE i \in 1..Len(members) : members[i].key = key].val
  ELSE default

\* The tokens of a JSON text.
TNum(n) == [tok |-> "num", num |-> n, str |-> <<>>]
TStr(s) == [tok |-> "str", num |-> 0, str |-> s]
TPunct(c) == [tok |-> c, num |-> 0, str |-> <<>>]

RECURSIVE Dumps(_)
RECURSIVE DumpsMembers(_, _)
\* json.dumps(value, separators=(",", ":"))
Dumps(value) ==
  IF value.kind = "num" THEN <<TNum(value.num)>>
  ELSE IF value.kind = "str" THEN <<TStr(value.str)>>
  ELSE <<TPunct("{")>> \o DumpsMembers(value.obj, 1) \o <<TPunct("}")>>

DumpsMembers(members, i) ==
  IF i > Len(members) THEN <<>>
  ELSE (IF i > 1 THEN <<TPunct(",")>> ELSE <<>>)
       \o <<TStr(members[i].key), TPunct(":")>>
       \o Dumps(members[i].val)
       \o DumpsMembers(members, i + 1)

RECURSIVE ParseValue(_, _)
RECURSIVE ParseMembers(_, _, _)
\* json.loads: the value that starts at token i and the place after it.
ParseValue(toks, i) ==
  IF toks[i].tok = "num" THEN [val |-> JNum(toks[i].num), next |-> i + 1]
  ELSE IF toks[i].tok = "str" THEN [val |-> JStr(toks[i].str), next |-> i + 1]
  ELSE ParseMembers(toks, i + 1, <<>>)

ParseMembers(toks, i, acc) ==
  IF toks[i].tok = "}" THEN [val |-> JObj(acc), next |-> i + 1]
  ELSE LET j == IF toks[i].tok = "," THEN i + 1 ELSE i
           r == ParseValue(toks, j + 2)
       IN ParseMembers(toks, r.next, Append(acc, Member(toks[j].str, r.val)))

Loads(toks) == ParseValue(toks, 1).val

\* GameMessage(type, player_id, data, sequence, timestamp)
GameMessage(type, player_id, data, seq, timestamp) ==
  [type |-> type, player_id |-> player_id, data |-> data, sequence |-> seq,
   timestamp |-> timestamp]

\* Mutant: to_compact sends the whole player id.
to_compact_WholeId(m) ==
  JObj(<<Member(<<"v">>, JNum(PROTOCOL_VERSION)),
         Member(<<"t">>, JStr(MessageType[m.type])),
         Member(<<"p">>, JStr(m.player_id)),
         Member(<<"s">>, JNum(m.sequence)),
         Member(<<"d">>, JObj(m.data))>>)

\* GameMessage.to_compact
to_compact(m) ==
  JObj(<<Member(<<"v">>, JNum(PROTOCOL_VERSION)),
         Member(<<"t">>, JStr(MessageType[m.type])),
         Member(<<"p">>, JStr(Take(m.player_id, 6))),
         Member(<<"s">>, JNum(m.sequence)),
         Member(<<"d">>, JObj(m.data))>>)

\* GameMessage.from_compact at time t
from_compact(data, t) ==
  GameMessage(MessageTypeOf(Get(data, <<"t">>, JStr(<<>>)).str),
              Get(data, <<"p">>, JStr(<<>>)).str,
              Get(data, <<"d">>, JObj(<<>>)).obj,
              Get(data, <<"s">>, JNum(0)).num,
              t)

encode_message(m) == Dumps(to_compact(m))

decode_message(text, t) == from_compact(Loads(text).obj, t)

\* create_join_message
create_join_message(player_id, name, room_id, seq, t) ==
  GameMessage("PLAYER_JOIN", player_id,
              <<Member(<<"n">>, JStr(Take(name, 16))),
                Member(<<"r">>, JNum(RoomId(room_id)))>>,
              seq, t)

\* create_leave_message
create_leave_message(player_id, seq, t) ==
  GameMessage("PLAYER_LEAVE", player_id, <<>>, seq, t)

\* create_chat_message (is_team false, no room)
create_chat_message(player_id, message, seq, t) ==
  GameMessage("CHAT", player_id, <<Member(<<"m">>, JStr(Take(message, 128)))>>, seq, t)

\* create_heartbeat
create_heartbeat(player_id, room_id, seq, t) ==
  GameMessage("HEARTBEAT", player_id, <<Member(<<"r">>, JNum(RoomId(room_id)))>>, seq, t)

\* Player ids of 3, 6 and 7 characters; the last two agree on the first six.
SenderIds ==
  {<<"a", "b", "c">>, <<"x", "y", "z", "7", "8", "9">>,
   <<"p", "l", "a", "y", "e", "r", "1">>, <<"p", "l", "a", "y", "e", "r", "2">>}

\* Display names within and beyond 16 characters.
NameTexts == {<<"A", "l">>, Chars("n", 16), Chars("n", 17)}

\* Chat texts within and beyond 128 characters.
ChatTexts == {<<"h", "i">>, Chars("c", 128), Chars("c", 129)}

RoomArgs == {"whous", "lroom", "nowhere"}

\* Payloads given to the GameMessage constructor directly.
DirectPayloads ==
  {<<Member(<<"n">>, JStr(name)), Member(<<"r">>, JNum(1))>> : name \in NameTexts}
  \cup {<<Member(<<"m">>, JStr(text))>> : text \in ChatTexts}

NoMessage == GameMessage("PLAYER_LEAVE", <<>>, <<>>, 0, 0)

InitCodec ==
  /\ msg = NoMessage
  /\ encoded = <<>>
  /\ decoded = NoMessage
  /\ kpc = "none"
  /\ clock = 0

\* The sender holds the message m from now on.
Made(m) ==
  /\ CodecStep
  /\ kpc = "none"
  /\ msg' = m
  /\ kpc' = "made"
  /\ UNCHANGED <<encoded, decoded, clock>>

CreateJoin ==
  \E id \in SenderIds, name \in NameTexts, room_id \in RoomArgs, seq \in 0..MaxSeq :
    Made(create_join_message(id, name, room_id, seq, clock))

CreateLeave ==
  \E id \in SenderIds, seq \in 0..MaxSeq : Made(create_leave_message(id, seq, clock))

CreateChat ==
  \E id \in SenderIds, text \in ChatTexts, seq \in 0..MaxSeq :
    Made(create_chat_message(id, text, seq, clock))

CreateHeartbeat ==
  \E id \in SenderIds, room_id \in RoomArgs, seq \in 0..MaxSeq :
    Made(create_heartbeat(id, room_id, seq, clock))

\* GameMessage(...) called directly, as the tests do.
Construct ==
  \E type \in {"PLAYER_JOIN", "CHAT"}, id \in SenderIds, data \in DirectPayloads,
     seq \in 0..MaxSeq :
    Made(GameMessage(type, id, data, seq, clock))

\* encoded = encode_message(msg)
Encode ==
  /\ CodecStep
  /\ kpc = "made"
  /\ encoded' = encode_message(msg)
  /\ kpc' = "encoded"
  /\ UNCHANGED <<msg, decoded, clock>>

\* decoded = decode_message(encoded)
Decode ==
  /\ CodecStep
  /\ kpc = "encoded"
  /\ decoded' = decode_message(encoded, clock)
  /\ kpc' = "decoded"
  /\ UNCHANGED <<msg, encoded, clock>>

\* The wall clock advances.
ClockTick ==
  /\ CodecStep
  /\ clock < MaxClock
  /\ clock' = clock + 1
  /\ UNCHANGED <<msg, encoded, decoded, kpc>>

NextCodec ==
  \/ CreateJoin
  \/ CreateLeave
  \/ CreateChat
  \/ CreateHeartbeat
  \/ Construct
  \/ Encode
  \/ Decode
  \/ ClockTick

Init ==
  /\ InitGate /\ InitConn /\ InitHybrid /\ InitPresence /\ InitCodec
  /\ InitThreads /\ InitSerial /\ InitInbound /\ InitShut
  /\ InitLocks
  /\ InitKeys

\* The dedup gate, one message handled at a time.
SpecGate == Init /\ [][NextGate]_vars

\* The dedup gate under the receive threads of the transports.
SpecGateConc == Init /\ [][NextGateConc]_vars

\* One MQTT transport: its life cycle, its sends, its broker.
SpecConn == Init /\ [][NextConn]_vars

\* The Hybrid Manager over its transports.
SpecHybrid == Init /\ [][NextHybrid]_vars

\* The Hybrid Manager's registry and primary: connect(), the detection loop,
\* disconnect() and the broker session of the MQTT client.
NextElection ==
  \/ \E avail \in SUBSET Kinds : \E okset \in SUBSET avail : HybridConnect(avail, okset)
  \/ \E avail \in SUBSET Kinds : \E okset \in SUBSET avail : DetectionPass(avail, okset)
  \/ HybridDisconnect
  \/ MqttLinkLoss
  \/ \E rc_ok \in BOOLEAN : MqttLinkBack(rc_ok)

SpecElection == Init /\ [][NextElection]_vars

\* The outgoing messages of the transports of one Hybrid Manager.
SpecKeys == Init /\ [][NextKeys]_vars

\* disconnect() of the Hybrid Manager against its detection thread.
SpecShut == Init /\ [][NextShut]_vars

\* The threads of a transport and of the Presence Manager, lock by lock.
SpecLocks == Init /\ [][NextLocks]_vars

\* The receive thread of one transport.
SpecInbound == Init /\ [][NextInbound]_vars

\* One serial transport.
SpecSerial == Init /\ [][NextSerial]_vars

\* One MQTT transport, connected once, with concurrent senders.
SpecSenders == Init /\ [][NextSenders]_vars

\* One MQTT transport with its threads interleaved.
SpecThreads == Init /\ [][NextThreads]_vars

\* A sender that makes and encodes messages, a receiver that decodes them.
SpecCodec == Init /\ [][NextCodec]_vars

\* The Presence Manager: its message thread and its cleanup thread.
SpecPresence == Init /\ [][NextPresence]_vars

\* One MQTT transport that never reaches Connected.
SpecOffline == Init /\ [][NextOffline]_vars

(***************************************************************************)
(* C1: when the same (sender_id, sequence) pair is handed to the gate by   *)
(* two different transports within the TTL window (a fresh manager, the    *)
(* second message following the first), the application callbacks have     *)
(* run exactly once for it and the duplicate counter is 1 afterwards.      *)
(***************************************************************************)
C1_DedupIdempotence ==
  [][\A src \in Transports, key \in Keys :
       ( /\ HandleMessage(src, key)
         /\ entered = 1
         /\ admitted_by[key] \notin {NoTransport, src}
         /\ now - admitted_at[key] <= DedupTTL )
       => (delivered'[key] = 1 /\ duplicate_count' = 1)]_vars

C1_Witness ==
  /\ entered = 2
  /\ duplicate_count = 1
  /\ \E key \in Keys :
       /\ last_msg.key = key
       /\ delivered[key] = 1
       /\ admitted_by[key] \notin {NoTransport, last_msg.src}

(***************************************************************************)
(* C2: for every interleaving of the receive threads that call             *)
(* _handle_message with the same key, the message is dispatched to the     *)
(* application callbacks at most once (no key expires and none is evicted  *)
(* under SpecGateConc).                                                    *)
(***************************************************************************)
C2_ExactlyOnceConcurrent == \A key \in RaceKeys : delivered[key] <= 1

(***************************************************************************)
(* C3, as claimed: a message whose key was admitted less than TTL ago is   *)
(* never dispatched again, whatever arrived in between.                    *)
(***************************************************************************)
C3_Original ==
  [][\A key \in Keys :
       (admitted_at[key] # NoTime /\ now - admitted_at[key] < DedupTTL)
       => delivered'[key] = delivered[key]]_vars

(***************************************************************************)
(* C3, amended: a message whose key was admitted less than TTL ago and is  *)
(* still held by the cache (it has not been evicted by newer keys) is not  *)
(* dispatched; it is counted as a duplicate.                               *)
(***************************************************************************)
C3_AtMostOnceWhileCached ==
  [][\A src \in Transports, key \in Keys :
       ( /\ HandleMessage(src, key)
         /\ admitted_at[key] # NoTime
         /\ now - admitted_at[key] < DedupTTL
         /\ KeyIn(cache, key) )
       => (delivered' = delivered /\ duplicate_count' = duplicate_count + 1)]_vars

C3_Witness ==
  /\ entered = 3
  /\ duplicate_count = 1
  /\ \E key \in Keys : \E other \in Keys \ {key} :
       /\ last_msg.key = key
       /\ delivered[key] = 1
       /\ admitted_by[key] \notin {NoTransport, last_msg.src}
       /\ admitted_at[key] < admitted_at[other]
       /\ now - admitted_at[key] < DedupTTL

(***************************************************************************)
(* C4: a repeated message whose key was admitted more than TTL ago is      *)
(* dispatched again and not counted as a duplicate, and the key is         *)
(* re-admitted with the current time, so that a further repeat within TTL  *)
(* is suppressed.                                                          *)
(***************************************************************************)
C4_TTLExpiryAdmitsReplay ==
  [][\A src \in Transports, key \in Keys :
       ( /\ HandleMessage(src, key)
         /\ admitted_at[key] # NoTime
         /\ now - admitted_at[key] > DedupTTL )
       => ( /\ delivered'[key] = delivered[key] + 1
            /\ duplicate_count' = duplicate_count
            /\ KeyIn(cache', key)
            /\ cache'[KeyIndex(cache', key)].ts = now
            /\ \A d \in 0..DedupTTL : LRUContainsResult(cache', key, now + d) )]_vars

C4_Witness ==
  /\ entered = 3
  /\ duplicate_count = 1
  /\ \E key \in Keys :
       /\ delivered[key] = 2
       /\ last_msg.key = key
       /\ admitted_at[key] > DedupTTL
       /\ now > admitted_at[key]

(***************************************************************************)
(* C5: after n send() calls made while the transport is not Connected the  *)
(* outgoing queue holds exactly the min(n, 100) most recently sent         *)
(* messages in send order; it never holds more than 100.                   *)
(***************************************************************************)
C5_BoundedQueue ==
  LET n == sequence
      held == IF n < QueueMaxLen THEN n ELSE QueueMaxLen
  IN /\ Len(outgoing_queue) = held
     /\ \A i \in 1..held : outgoing_queue[i].message.seq = n - held + i

C5_Witness ==
  /\ sequence = 105
  /\ Len(outgoing_queue) = 100
  /\ outgoing_queue[1].message.seq = 6
  /\ outgoing_queue[100].message.seq = 105

(***************************************************************************)
(* C10: every transition of a transport into Connected is taken from       *)
(* Connecting; none from Disconnected, Reconnecting or Error.              *)
(***************************************************************************)
C10_ConnectedOnlyFromConnecting ==
  [][(state' = "CONNECTED" /\ state # "CONNECTED") => state = "CONNECTING"]_vars

(***************************************************************************)
(* C6: with A (preferred, primary) and B both registered, once A has       *)
(* fallen out of Connected while B is Connected, the next send() succeeds  *)
(* via B and primary_transport reports B.                                  *)
(***************************************************************************)
C6_FailoverElection ==
  [][\A rawok \in [Kinds -> BOOLEAN] : \A A \in Transports : \A B \in Transports \ {A} :
       ( /\ HybridSend(rawok)
         /\ registered = {A, B}
         /\ PriorityIndex(A) < PriorityIndex(B)
         /\ primary \in {A, B}
         /\ tstate[A] # "CONNECTED"
         /\ tstate[B] = "CONNECTED"
         /\ rawok[B] )
       => ( /\ last_send'.ok
            /\ last_send'.via = B
            /\ primary' = B )]_vars

(***************************************************************************)
(* C7: send() returns false only if no owned transport transmitted the     *)
(* message: it does not return false while a registered, Connected         *)
(* transport would have accepted it.                                       *)
(***************************************************************************)
C7_SendTriesEveryConnected ==
  [][\A rawok \in [Kinds -> BOOLEAN] :
       ( /\ HybridSend(rawok)
         /\ \E tt \in registered : tstate[tt] = "CONNECTED" /\ rawok[tt] )
       => last_send'.ok]_vars

(***************************************************************************)
(* C8: a staleness sweep removes every roster entry not seen for more than *)
(* the timeout and fires the leave callbacks for it; every roster entry    *)
(* that has gone has had the leave callbacks fired exactly once (or they   *)
(* are about to be, by the thread that popped it), never twice, also when  *)
(* an explicit leave of that player is handled around the sweep.           *)
(***************************************************************************)
LeavePending(id) == IF ppc = "leave_callbacks" /\ pplayer = id THEN 1 ELSE 0

C8_StalenessEviction ==
  [][ /\ CleanupStale =>
          \A id \in PlayerIds :
            (players[id].in /\ ptime - players[id].last_seen > HeartbeatTimeout)
            => (~players'[id].in /\ leave_fired'[id] = leave_fired[id] + 1)
      /\ \A id \in PlayerIds :
            leave_fired'[id] + LeavePending(id)' + (IF players'[id].in THEN 1 ELSE 0)
              = created'[id] ]_vars

C8_Witness ==
  \E id \in RemoteIds :
    /\ ~players[id].in
    /\ created[id] = 1
    /\ leave_fired[id] = 1
    /\ ppc = "idle"
    /\ ptime > HeartbeatTimeout
    /\ handled = 1

(***************************************************************************)
(* C9 as stated: decode_message(encode_message(m)) is m with the sender id *)
(* cut to its first 6 characters and the free-text fields (display name,   *)
(* chat text) cut to 16 and 128 characters; every other field, the         *)
(* timestamp included, is reproduced.                                      *)
(***************************************************************************)
CutMember(member) ==
  IF member.key = <<"n">> THEN Member(member.key, JStr(Take(member.val.str, 16)))
  ELSE IF member.key = <<"m">> THEN Member(member.key, JStr(Take(member.val.str, 128)))
  ELSE member

CutText(data) == [i \in 1..Len(data) |-> CutMember(data[i])]

C11_ConnectIdempotent ==
  [][ /\ hb_threads' <= 1
      /\ (state = "CONNECTED" /\ \E reach \in BOOLEAN : MqttConnect(reach))
           => (state' = "CONNECTED" /\ link' = link /\ cpc' = "idle") ]_vars

(***************************************************************************)
(* C12: disconnect() leaves the state Disconnected whatever the state was, *)
(* and from its return until the next connect() no heartbeat loop of the   *)
(* transport produces a message (none is transmitted and none is queued).  *)
(***************************************************************************)
C12_DisconnectSafe ==
  [][ /\ DisconnectReturn => state' = "DISCONNECTED"
      /\ (quiet /\ quiet') =>
           \A t \in HbIds : ~(\E ok \in BOOLEAN : Transmit(t, ok)) ]_vars

(***************************************************************************)
(* C13: every send() takes the next sequence number; when it returns true  *)
(* the transport was Connected, the message was transmitted and the queue  *)
(* is unchanged; when it returns false the message was appended to the     *)
(* queue once and nothing was transmitted.  No message is both transmitted *)
(* by send() and left in the queue.                                        *)
(***************************************************************************)
C13_SendOutcome ==
  [][\A t \in Threads :
       /\ (tpc[t] # "assigned" /\ tpc'[t] = "assigned")
            => (sequence' = sequence + 1 /\ tseq'[t] = sequence + 1)
       /\ (tpc[t] = "assigned" /\ tpc'[t] # "assigned")
            => LET m == [kind |-> KindOf(t), seq |-> tseq[t]] IN
               /\ last_ret'.called /\ last_ret'.seq = m.seq /\ last_ret'.kind = m.kind
               /\ IF last_ret'.ok
                  THEN /\ state = "CONNECTED"
                       /\ wire' = Append(wire, m)
                       /\ outgoing_queue' = outgoing_queue
                  ELSE /\ wire' = wire
                       /\ outgoing_queue' =
                            Append(outgoing_queue, [message |-> m, attempts |-> 0])
               /\ \A i \in 1..Len(wire'), j \in 1..Len(outgoing_queue') :
                    wire'[i] # outgoing_queue'[j].message ]_vars

C13_Witness ==
  /\ last_ret.called /\ ~last_ret.ok /\ last_ret.seq = 2
  /\ state = "CONNECTED"
  /\ wire = <<[kind |-> "PM", seq |-> 1]>>
  /\ Len(outgoing_queue) = 1 /\ outgoing_queue[1].message.seq = 2

(***************************************************************************)
(* C14: the sequence numbers one transport assigns are strictly increasing *)
(* in the order of assignment, so no two send() calls get the same number, *)
(* whatever the interleaving of the application thread and the heartbeat   *)
(* loop; a message is transmitted or queued with the number it was         *)
(* assigned, and no number is carried by two messages.                     *)
(***************************************************************************)
Carried == [i \in 1..Len(wire) |-> wire[i].seq]
             \o [j \in 1..Len(outgoing_queue) |-> outgoing_queue[j].message.seq]

C14_SequenceAssignment ==
  /\ \A i, j \in 1..Len(assigned) : i < j => assigned[i] < assigned[j]
  /\ \A t \in Threads :
       tpc[t] = "assigned" => \E i \in 1..Len(assigned) : assigned[i] = tseq[t]
  /\ \A i \in 1..Len(Carried) : \E j \in 1..Len(assigned) : assigned[j] = Carried[i]
  /\ \A i, j \in 1..Len(Carried) : i # j => Carried[i] # Carried[j]

C14_Witness ==
  /\ Len(assigned) = 2
  /\ Len(wire) = 2
  /\ wire[1].kind = "HB" /\ wire[2].kind = "PM"
  /\ wire[1].seq > wire[2].seq

(***************************************************************************)
(* C15: a flush transmits a prefix of the queue, in queue order, and       *)
(* removes what it transmitted; the first message whose transmission fails *)
(* gets one more failed attempt and is dropped exactly when that makes 3;  *)
(* every later message stays queued, untouched and in order.               *)
(***************************************************************************)
IsFlush ==
  \/ \E rc_ok \in BOOLEAN, k \in 0..Len(outgoing_queue) : MqttOnConnect(rc_ok, k)
  \/ \E k \in 0..Len(outgoing_queue) : MqttWaitDone(k)

C15_FlushOrderAndCeiling ==
  [][IsFlush =>
       LET n == Len(wire') - Len(wire)
           rest == SubSeq(outgoing_queue, n + 1, Len(outgoing_queue))
       IN /\ n >= 0 /\ n <= Len(outgoing_queue)
          /\ SubSeq(wire', 1, Len(wire)) = wire
          /\ \A i \in 1..n : wire'[Len(wire) + i] = outgoing_queue[i].message
          /\ \/ outgoing_queue' = rest
             \/ /\ rest # <<>>
                /\ rest[1].attempts + 1 < 3
                /\ outgoing_queue' = <<[rest[1] EXCEPT !.attempts = @ + 1]>> \o Tail(rest)
             \/ /\ rest # <<>>
                /\ rest[1].attempts + 1 >= 3
                /\ outgoing_queue' = Tail(rest)
          /\ (outgoing_queue' = rest /\ rest # <<>>) => state' # "CONNECTED" ]_vars

C15_Witness ==
  /\ sequence = 2
  /\ outgoing_queue = <<>>
  /\ wire = <<[kind |-> "PM", seq |-> 2]>>
  /\ state = "CONNECTED"

(***************************************************************************)
(* C16: whenever a transport reaches Connected with a non-empty outgoing   *)
(* queue, the queue is flushed (a flush of a non-empty queue transmits its *)
(* head or counts a failed attempt for it).                                *)
(***************************************************************************)
C16_FlushOnConnected ==
  [][(state # "CONNECTED" /\ state' = "CONNECTED" /\ outgoing_queue # <<>>)
       => outgoing_queue' # outgoing_queue]_vars

(***************************************************************************)
(* C17: a heartbeat loop hands a heartbeat to the transport (transmitted   *)
(* or queued) only while the transport is Connected.                       *)
(***************************************************************************)
C17_HeartbeatOnlyConnected ==
  [][\A t \in HbIds :
       (tpc[t] = "assigned" /\ tpc'[t] # "assigned") => state = "CONNECTED"]_vars

C19_HybridConnect ==
  [][LET att == last_connect'.attempts
         avail == {tt \in Kinds : status_available'[tt]}
         okset == last_connect'.connected
     IN HybridConnect(avail, okset) =>
         /\ \A i \in 1..Len(att) : att[i] \in avail
         /\ \A i \in 1..Len(att) : \A j \in 1..Len(att) :
              i < j => PriorityIndex(att[i]) < PriorityIndex(att[j])
         /\ \A tt \in okset : \E i \in 1..Len(att) : att[i] = tt
         /\ \A tt \in okset :
              /\ tt \in registered'
              /\ tstate'[tt] = "CONNECTED"
              /\ status_connected'[tt]
         /\ primary = NoTransport =>
              IF okset = {} THEN primary' = NoTransport
              ELSE /\ primary' \in okset
                   /\ \A u \in okset : PriorityIndex(primary') <= PriorityIndex(u)
         /\ last_connect'.ret <=> okset # {}]_vars

\* connect() has just returned true with two kinds connected, the second of
\* the priority list being Connected without being the primary.
C19_Witness ==
  /\ last_connect.called
  /\ last_connect.ret
  /\ Len(last_connect.attempts) >= 2
  /\ registered = Transports
  /\ \A tt \in Transports : tstate[tt] = "CONNECTED"
  /\ primary \in Transports
  /\ \E u \in Transports \ {primary} : PriorityIndex(primary) < PriorityIndex(u)
  /\ ~last_pass.ran

(***************************************************************************)
(* C20: in a pass of the detection loop every registered transport that is *)
(* not Connected has its status marked disconnected, and if such a         *)
(* transport was the primary, the primary becomes the first kind of the    *)
(* priority list whose transport is Connected, or is unset if there is     *)
(* none.                                                                   *)
(***************************************************************************)
C20_DetectionReelection ==
  [][LET avail == {tt \in Kinds : status_available'[tt]}
         okset == registered' \ registered
         conn == {tt \in registered' : tstate'[tt] = "CONNECTED"}
     IN DetectionPass(avail, okset) =>
         /\ \A tt \in registered' :
              tstate'[tt] # "CONNECTED" => ~status_connected'[tt]
         /\ (primary \in registered /\ tstate[primary] # "CONNECTED") =>
              IF conn = {} THEN primary' = NoTransport
              ELSE /\ primary' \in conn
                   /\ \A u \in conn : PriorityIndex(primary') <= PriorityIndex(u)]_vars

\* A pass has found the primary out of Connected and has elected the other
\* registered transport, which is Connected.
C20_Witness ==
  /\ last_pass.ran
  /\ last_pass.prim \in last_pass.lost
  /\ last_pass.prim \in registered
  /\ tstate[last_pass.prim] # "CONNECTED"
  /\ ~status_connected[last_pass.prim]
  /\ primary \in registered \ {last_pass.prim}
  /\ tstate[primary] = "CONNECTED"

(***************************************************************************)
(* C21: in a pass of the detection loop every kind that is probed          *)
(* available and is not Connected gets a connection attempt, a registered  *)
(* kind that has fallen out of Connected included.                         *)
(***************************************************************************)
C21_PassReconnects ==
  [][LET avail == {tt \in Kinds : status_available'[tt]}
         okset == registered' \ registered
     IN DetectionPass(avail, okset) =>
          \A tt \in avail :
            (tt \notin registered \/ tstate[tt] # "CONNECTED")
              => tt \in DetectAttempts(avail, registered)]_vars

(***************************************************************************)
(* C22: after every completed detection pass the primary is the            *)
(* highest-priority kind among the registered transports that are          *)
(* Connected, and it is unset only if none is Connected.                   *)
(***************************************************************************)
C22_PrimaryIsBestConnected ==
  [][LET avail == {tt \in Kinds : status_available'[tt]}
         okset == registered' \ registered
         conn == {tt \in registered' : tstate'[tt] = "CONNECTED"}
     IN DetectionPass(avail, okset) =>
          IF conn = {} THEN primary' = NoTransport
          ELSE /\ primary' \in conn
               /\ \A u \in conn : PriorityIndex(primary') <= PriorityIndex(u)]_vars

(***************************************************************************)
(* C23: once HybridTransport.disconnect() has returned, and until the next *)
(* connect(), no owned transport is Connected, the registry is empty and   *)
(* the primary is unset, whatever a detection pass that was in flight when *)
(* disconnect() was called does afterwards.                                *)
(***************************************************************************)
C23_DisconnectFinal ==
  closed => /\ registered = {}
            /\ primary = NoTransport
            /\ \A tt \in Kinds : tstate[tt] # "CONNECTED"

(***************************************************************************)
(* C24: handling a join message of a remote id puts an entry for that id   *)
(* in the roster with the name of the message (the id if it carries none)  *)
(* and the room its room number denotes, and leaves the other entries      *)
(* alone; the join callbacks fire if and only if the id was not in the     *)
(* roster before; a join for a known id leaves the roster size unchanged.  *)
(***************************************************************************)
RosterSize(roster) == Cardinality({id \in PlayerIds : roster[id].in})

C24_JoinHandling ==
  [][\A id \in RemoteIds : \A num \in RoomNums : \A nm \in JoinNames :
       HandleJoin(id, num, nm) =>
         /\ players'[id].in
         /\ players'[id].name = (IF nm = NoName THEN id ELSE nm)
         /\ players'[id].room_id = RoomName(num, "whous")
         /\ \A o \in PlayerIds \ {id} : players'[o] = players[o]
         /\ join_fired'[id] = join_fired[id] + (IF players[id].in THEN 0 ELSE 1)
         /\ ("join" \in last_handled'.fired) <=> ~players[id].in
         /\ \A o \in PlayerIds \ {id} : join_fired'[o] = join_fired[o]
         /\ players[id].in => RosterSize(players') = RosterSize(players)]_vars

\* A join for an id that is in the roster has just been handled: no join
\* callback for it, the one of the first join is the only one.
C24_Witness ==
  \E id \in RemoteIds :
    /\ last_handled = [kind |-> "join", id |-> id, fired |-> {}]
    /\ players[id].in
    /\ join_fired[id] = 1
    /\ created[id] = 1
    /\ handled = 2

(***************************************************************************)
(* C25: handling a leave message for an id in the roster removes the entry *)
(* and has the leave callbacks called once for it; a leave for an id not   *)
(* in the roster leaves the roster unchanged and calls no callback.        *)
(***************************************************************************)
C25_LeaveHandling ==
  [][ /\ \A id \in RemoteIds :
           HandleLeave(id) =>
             /\ leave_fired' = leave_fired
             /\ IF players[id].in
                THEN /\ ~players'[id].in
                     /\ \A o \in PlayerIds \ {id} : players'[o] = players[o]
                     /\ ppc' = "leave_callbacks" /\ pplayer' = id
                ELSE /\ players' = players
                     /\ ppc' = "idle"
      /\ LeaveCallbacks =>
           /\ leave_fired'[pplayer] = leave_fired[pplayer] + 1
           /\ \A o \in PlayerIds \ {pplayer} : leave_fired'[o] = leave_fired[o]
           /\ ppc' = "idle"
           /\ players' = players ]_vars

\* The leave of a player who was in the roster has been handled and its
\* callbacks have run, once.
C25_Witness ==
  \E id \in RemoteIds :
    /\ last_handled = [kind |-> "leave", id |-> id, fired |-> {"leave"}]
    /\ ~players[id].in
    /\ created[id] = 1
    /\ leave_fired[id] = 1
    /\ ppc = "idle"

(***************************************************************************)
(* C26: when a move, heartbeat, action or chat message of a remote id that *)
(* is not in the roster has been handled, the roster has an entry for that *)
(* id whose display name is the id.                                        *)
(***************************************************************************)
C26_UnknownSenderSynthesis ==
  [][LET id == last_handled'.id IN
       ( /\ handled' = handled + 1
         /\ last_handled'.kind \in {"move", "heartbeat", "action", "chat"}
         /\ id # LocalPlayerId
         /\ ~players[id].in )
       => ( /\ players'[id].in
            /\ players'[id].name = id )]_vars

(***************************************************************************)
(* C27: the roster never holds an entry for the local player id, and the   *)
(* handling of a message that carries the local id calls no callback and   *)
(* changes nothing in the roster.                                          *)
(***************************************************************************)
C27_LocalNeverInRoster ==
  [][ /\ ~players'[LocalPlayerId].in
      /\ \A kind \in PresenceKinds :
           HandleOwn(kind) =>
             /\ players' = players
             /\ join_fired' = join_fired
             /\ leave_fired' = leave_fired
             /\ last_handled'.fired = {}
             /\ ppc' = "idle" ]_vars

\* A join carrying the local id has just been handled while a remote
\* player is in the roster.
C27_Witness ==
  /\ last_handled = [kind |-> "join", id |-> LocalPlayerId, fired |-> {}]
  /\ \E id \in RemoteIds : players[id].in
  /\ ~players[LocalPlayerId].in
  /\ handled >= 2

(***************************************************************************)
(* C28: a thread that is executing observer callbacks (state, message,     *)
(* join or leave callbacks, those of the staleness sweep included) holds   *)
(* none of the internal locks.                                             *)
(***************************************************************************)
C28_NoLockAcrossCallbacks ==
  \A t \in LThreads :
    lcb[t] # "none" => (lk_state # t /\ lk_queue # t /\ lk_presence # t)

(***************************************************************************)
(* C29: a thread that is inside a raw transmission holds no transport      *)
(* lock, so no send() that has to queue its message waits for the queue    *)
(* lock while its holder is inside a raw transmission.                     *)
(***************************************************************************)
C29_NoLockAcrossRawSend ==
  /\ \A t \in LThreads : in_raw[t] => (lk_state # t /\ lk_queue # t)
  /\ ~( /\ lpc["app"] = "queue_wait"
        /\ lk_queue # NoHolder
        /\ in_raw[lk_queue] )

(***************************************************************************)
(* C30: when a transport receives data that is not valid structured data   *)
(* (not UTF-8, not JSON, not an object, no kind tag) or that carries an     *)
(* unrecognized kind tag, the inbound handler lets no exception out, passes *)
(* nothing to the message observers and leaves the seen sets, the outgoing  *)
(* queue and the connection state unchanged.                                *)
(***************************************************************************)
C30_MalformedDropped ==
  [][\A raw \in RawInputs :
       ( /\ HandleData(raw, 1)
         /\ (~raw.utf8 \/ ~raw.json \/ ~raw.object \/ raw.t \notin MessageTags) )
       => ( /\ ~last_error'.escaped
            /\ last_error'.error # "none"
            /\ last_in' = last_in
            /\ seen_sequences' = seen_sequences
            /\ outgoing_queue' = outgoing_queue
            /\ state' = state )]_vars

\* Data with an unrecognized kind tag has just been dropped by a transport
\* that has seen messages of that sender before.
C30_Witness ==
  /\ last_error = [error |-> "ValueError", escaped |-> FALSE]
  /\ seen_sequences["r1"] # {}
  /\ last_in.passed_to = Observers

(***************************************************************************)
(* C31, as stated: after every handled message get_players_in_room(r) is   *)
(* the set of entries whose room is r and get_player_count() is the number *)
(* of ids that entered the roster and were not removed since; a move for a *)
(* known player lists it in the destination room and no longer in the      *)
(* origin room of the message, and the move callbacks get both rooms.      *)
(***************************************************************************)
RECURSIVE SumOver(_, _)
SumOver(f, S) ==
  IF S = {} THEN 0
  ELSE LET x == CHOOSE y \in S : TRUE IN f[x] + SumOver(f, S \ {x})

\* Entries created minus entries whose removal has been announced or is
\* about to be (the leave handler has popped, its callbacks are next).
EnteredNotRemoved ==
  SumOver(created, PlayerIds) - SumOver(leave_fired, PlayerIds)
    - (IF ppc = "leave_callbacks" THEN 1 ELSE 0)

Rooms == {RoomName(num, d) : num \in RoomNums, d \in {"", "whous"}}

QueriesAgree ==
  /\ get_player_count(players) = EnteredNotRemoved
  /\ get_player_count(players) = Cardinality(get_all_players(players))
  /\ \A r \in Rooms :
       get_players_in_room(players, r)
         = {id \in get_all_players(players) : players[id].room_id = r}
  /\ \A id \in get_all_players(players) :
       Cardinality({r \in Rooms : id \in get_players_in_room(players, r)}) = 1

C31_Original ==
  [][ /\ QueriesAgree'
      /\ \A id \in RemoteIds : \A f \in RoomNums : \A num \in RoomNums :
           (last_handled'.kind = "move" /\ last_handled'.id = id
              /\ players[id].in /\ HandleMove(id, f, num)) =>
             /\ id \in get_players_in_room(players', RoomName(num, "whous"))
             /\ id \notin get_players_in_room(players', RoomName(f, ""))
             /\ move_args' = <<RoomName(f, ""), RoomName(num, "whous")>> ]_vars

(***************************************************************************)
(* C31: the same, where the player is no longer listed in the origin room  *)
(* when the two room numbers of the message denote different rooms (a      *)
(* destination number that is not in ROOM_NAMES denotes "whous"); the      *)
(* count changes by one exactly when a join or a move creates an entry and *)
(* when a leave removes one.                                               *)
(***************************************************************************)
C31_RosterQueries ==
  [][ /\ QueriesAgree'
      /\ \A id \in RemoteIds : \A f \in RoomNums : \A num \in RoomNums :
           (last_handled'.kind = "move" /\ last_handled'.id = id
              /\ HandleMove(id, f, num)) =>
             /\ id \in get_players_in_room(players', RoomName(num, "whous"))
             /\ RoomName(f, "") # RoomName(num, "whous")
                  => id \notin get_players_in_room(players', RoomName(f, ""))
             /\ move_args' = <<RoomName(f, ""), RoomName(num, "whous")>>
             /\ \A o \in PlayerIds \ {id} : players'[o] = players[o]
             /\ get_player_count(players')
                  = get_player_count(players) + (IF players[id].in THEN 0 ELSE 1)
      /\ \A id \in RemoteIds :
           (last_handled'.kind = "leave" /\ last_handled'.id = id
              /\ HandleLeave(id)) =>
             get_player_count(players')
               = get_player_count(players) - (IF players[id].in THEN 1 ELSE 0) ]_vars

\* A player who joined in "whous" has just moved to "lroom" while another
\* player stays in "whous".
C31_Witness ==
  \E id \in RemoteIds : \E o \in RemoteIds \ {id} :
    /\ last_handled = [kind |-> "move", id |-> id, fired |-> {"move"}]
    /\ move_args = <<"whous", "lroom">>
    /\ join_fired[id] = 1
    /\ created[id] = 1
    /\ get_players_in_room(players, "lroom") = {id}
    /\ get_players_in_room(players, "whous") = {o}
    /\ get_player_count(players) = 2

(***************************************************************************)
(* C32: no two distinct outgoing messages of the player (application       *)
(* messages sent by the Hybrid Manager through the primary or a fallback,  *)
(* heartbeats of the transports) carry the same sender_id:sequence key;    *)
(* the sender id is the same for all of them.                              *)
(***************************************************************************)
C32_OneKeySpace ==
  \A a \in outbox : \A b \in outbox : a.n # b.n => a.seq # b.seq

(***************************************************************************)
(* C33: after every message handled by the gate the dedup cache holds at   *)
(* most DedupCacheSize keys and holds the key of the message (admission    *)
(* does not fail); a key leaves the cache by eviction only when a key that *)
(* is not in a full cache is admitted, and it is then the one key that was *)
(* least recently admitted or found by a lookup.                           *)
(***************************************************************************)
CachedKeys(c) == {c[i].key : i \in 1..Len(c)}

LeastRecentlyUsed(c) ==
  CHOOSE k \in CachedKeys(c) : \A o \in CachedKeys(c) : used_at[k] <= used_at[o]

C33_CacheBound ==
  [][ /\ Len(cache') <= DedupCacheSize
      /\ \A src \in Transports : \A key \in Keys :
           (last_msg'.key = key /\ last_msg'.src = src /\ HandleMessage(src, key)) =>
             LET evicted == (CachedKeys(cache) \ CachedKeys(cache')) \ {key} IN
             /\ key \in CachedKeys(cache')
             /\ IF key \notin CachedKeys(cache) /\ Len(cache) = DedupCacheSize
                THEN evicted = {LeastRecentlyUsed(cache)}
                ELSE evicted = {} ]_vars

\* Two keys were admitted, the first was then found by a lookup, and the
\* admission of a third evicted the second.
C33_Witness ==
  \E k1 \in Keys : \E k2 \in Keys \ {k1} : \E k3 \in Keys \ {k1, k2} :
    /\ used_at[k2] = 2 /\ used_at[k1] = 3 /\ used_at[k3] = 4
    /\ duplicate_count = 1
    /\ delivered[k1] = 1 /\ delivered[k2] = 1 /\ delivered[k3] = 1
    /\ CachedKeys(cache) = {k1, k3}
    /\ Len(cache) = DedupCacheSize

(***************************************************************************)
(* C34: after every handled inbound message the seen set of every sender   *)
(* holds at most 1000 sequence numbers; a message not seen before is       *)
(* passed to the observers, also when its admission clears the set; and a  *)
(* message that repeats the one passed on just before it is passed to no   *)
(* observer.                                                               *)
(***************************************************************************)
C34_SeenSetBound ==
  [][LET p == last_in'.player_id
         seq == last_in'.sequence
     IN HandleIncoming(p, seq) =>
          /\ \A q \in Senders : Cardinality(seen_sequences'[q]) <= SeenLimit
          /\ (p # OwnId /\ seq \notin seen_sequences[p])
               => last_in'.passed_to = Observers
          /\ (last_in = [player_id |-> p, sequence |-> seq, passed_to |-> Observers])
               => last_in'.passed_to = {}]_vars

(***************************************************************************)
(* C35: whenever no receive thread is inside _handle_message, the number   *)
(* of messages dispatched to the application plus duplicate_count equals   *)
(* the number of messages that entered the gate.                           *)
(***************************************************************************)
C35_DuplicateAccounting ==
  (\A t \in Transports : hpc[t] = "idle")
    => SumOver(delivered, Keys) + duplicate_count = entered

(***************************************************************************)
(* C36: the cleanup thread never waits, inside a leave callback of the     *)
(* staleness sweep that queries the roster, for the roster lock that it    *)
(* holds itself.                                                           *)
(***************************************************************************)
C36_SweepNoSelfDeadlock ==
  ~(lpc["sweep"] = "query_wait" /\ lk_presence = "sweep")

(***************************************************************************)
(* C37: the last_seen of every roster entry is the time the latest message *)
(* of that player was handled (a move, heartbeat, action or chat of a      *)
(* player in the roster sets it to the time of handling) and never         *)
(* decreases; a staleness sweep leaves in the roster, and fires no leave   *)
(* callback for, every player whose latest message was handled at most     *)
(* HeartbeatTimeout ago.                                                   *)
(***************************************************************************)
C37_NoPrematureEviction ==
  [][ /\ \A id \in RemoteIds :
           /\ players'[id].in => players'[id].last_seen = observed_at'[id]
           /\ (players[id].in /\ players'[id].in)
                => players'[id].last_seen >= players[id].last_seen
           /\ ( /\ last_handled'.id = id
                /\ handled' = handled + 1
                /\ last_handled'.kind \in {"move", "heartbeat", "action", "chat"}
                /\ players[id].in )
                => (players'[id].in /\ players'[id].last_seen = ptime)
      /\ CleanupStale =>
           \A id \in RemoteIds :
             (players[id].in /\ ptime - observed_at[id] <= HeartbeatTimeout)
               => (players'[id].in /\ leave_fired'[id] = leave_fired[id]) ]_vars

\* Two players joined at time 0; one was heard again at time 2, the other
\* was not: at time 3 the sweep has removed the silent one only.
C37_Witness ==
  \E id \in RemoteIds : \E o \in RemoteIds \ {id} :
    /\ ptime = 3
    /\ players[id].in /\ players[id].last_seen = 2 /\ observed_at[id] = 2
    /\ created[id] = 1 /\ leave_fired[id] = 0
    /\ last_handled.id = id
    /\ last_handled.kind \in {"move", "heartbeat", "action", "chat"}
    /\ ~players[o].in /\ created[o] = 1 /\ leave_fired[o] = 1
    /\ ptime - 0 > HeartbeatTimeout

(***************************************************************************)
(* C38: a disconnect() of a transport that is not Connected leaves the     *)
(* outgoing queue as it was, and a flush of the queue (the one a           *)
(* successful connect brings) transmits no leave message.                  *)
(***************************************************************************)
C38_DisconnectLeavesQueue ==
  [][ /\ \A ok \in BOOLEAN :
           (state # "CONNECTED" /\ MqttDisconnect(ok))
             => outgoing_queue' = outgoing_queue
      /\ IsFlush =>
           \A i \in (Len(wire) + 1)..Len(wire') : wire'[i].kind # "PL" ]_vars

(***************************************************************************)
(* C39: after a connect(), a detection pass or a disconnect() of the       *)
(* Hybrid Manager, the per-kind connected flag of get_status() is true     *)
(* exactly for the kinds of its connected list; after disconnect() no kind *)
(* is reported connected.                                                  *)
(***************************************************************************)
C39_StatusAgrees ==
  [][ /\ ~(MqttLinkLoss \/ \E rc_ok \in BOOLEAN : MqttLinkBack(rc_ok))
           => \A tt \in Kinds : StatusConnected(tt)' <=> (tt \in connected_transports')
      /\ HybridDisconnect
           => \A tt \in Kinds : ~StatusConnected(tt)' ]_vars

(***************************************************************************)
(* C40: when a detection pass has connected and registered a kind, the     *)
(* primary becomes that kind if no primary was set or if the kind precedes *)
(* the primary in the priority list, and is unchanged otherwise; and at    *)
(* all times a primary that is set is a kind of the registry.              *)
(***************************************************************************)
C40_PrimaryUpgrade ==
  [][ /\ PassUpdatePrimary =>
           LET tt == DetectOrder[pass_i] IN
           primary' = IF primary = NoTransport THEN tt
                      ELSE IF PriorityIndex(tt) < PriorityIndex(primary) THEN tt
                      ELSE primary
      /\ primary' # NoTransport => primary' \in registered' ]_vars

=============================================================================
